---- MODULE Spec2Model ----
(***************************************************************************)
(* Verification model of nmc-map-matcher: the graph library and walker of  *)
(* nmc_mm_lib/graph.py and the stop matching of transit_gtfs.py.           *)
(*                                                                         *)
(* Lengths and coordinates are feet, kept as integers; every input is      *)
(* chosen so that the divisions of the source are exact.  Costs are kept   *)
(* in half units so that the penalty factor 1.5 stays integral.            *)
(***************************************************************************)
EXTENDS Integers, Sequences, FiniteSets, TLC

VARIABLES
    \* WalkPathProcessor (graph.py 261-293)
    backCache, winner, backtrackScore, processingQueue,
    pointOnLinkOrig, pointOnLinkDest,
    limitSteps, limitDistance, limitRadius, limitRadiusSq, allowUTurns,
    worstCost,      \* threshold behind pathEngine.exceedsPreviousCosts
    walkRet,        \* what the last walkPath call returned
    walkPc,         \* position inside walkPath: "idle" or "search"
    walkCalls,      \* number of walkPath calls made so far
    enqueued,       \* frames appended to the queue since the call started
    cacheAtCall,    \* backCache as it was when the call started
    walkGraph,      \* the graph the processor's engine matches against
    \* GraphLib.findPointsOnLinks
    findGraph,      \* the graph that is searched
    findArgs,       \* the arguments of the call
    findRet,        \* the list the call returned, None before it returns
    \* buildSubset and embellishSubset (transit_gtfs.py 220-384)
    treeNodes,      \* the PathEnd list given to buildSubset
    subset,         \* the single-path graph
    outLinkList,    \* the links of the path, as uids of subset
    subsetPc,       \* "start", "built", "embellished"
    \* dumpBusRouteLinks (transit_gtfs.py 455-750)
    gtfsTrips,      \* trip id -> the trip's PathEnd list and its stops
    allResultTrees, \* trip id -> the PathEnds matched to the trip's stops
    allSubsets,     \* trip id -> the trip's subset
    allUsedTripIDs, \* the trips matched so far, in order
    allStopsLookups,\* trip id -> (stop sequence -> stop id)
    matchedTrees,   \* allResultTrees as constructPath returned them
    runArgs,        \* the valid interval and the -u, -w, -x switches
    runOut,         \* the rows written so far, stopLinkMap, loop locals
    runPc,          \* "match", "reconcile", "refine", "done", "exit", "raised"
    \* readAVLCSV (avl_distances.py 54-141)
    avlFile,        \* the CSV file and the -r/-h arguments
    avl,            \* the locals of readAVLCSV
    avlPc,          \* "read", "returned", "raised"
    \* treeContiguous (transit_gtfs.py 144-218)
    contigArgs,     \* treeNodes, gtfsStopTimes, startTime, endTime
    contigRet       \* None before the call, then what the call gave

walkVars == <<backCache, winner, backtrackScore, processingQueue,
              pointOnLinkOrig, pointOnLinkDest, limitSteps, limitDistance,
              limitRadius, limitRadiusSq, allowUTurns, worstCost, walkRet, walkPc,
              walkCalls, enqueued, cacheAtCall, walkGraph>>

\* what WalkPathProcessor.__init__ fixes for the life of the processor
walkConfig == <<limitSteps, limitDistance, limitRadius, limitRadiusSq,
                allowUTurns, walkGraph>>

findVars == <<findGraph, findArgs, findRet>>

subsetVars == <<treeNodes, subset, outLinkList, subsetPc>>

runVars == <<gtfsTrips, allResultTrees, allSubsets, allUsedTripIDs,
             allStopsLookups, matchedTrees, runArgs, runOut, runPc>>

avlVars == <<avlFile, avl, avlPc>>

contigVars == <<contigArgs, contigRet>>

vars == <<walkVars, findVars, subsetVars, runVars, avlVars, contigVars>>

\* the variables an operation of one component leaves alone
notWalk == <<findVars, subsetVars, runVars, avlVars, contigVars>>
notFind == <<walkVars, subsetVars, runVars, avlVars, contigVars>>
notSubset == <<walkVars, findVars, runVars, avlVars, contigVars>>
notRun == <<walkVars, findVars, subsetVars, avlVars, contigVars>>
notAvl == <<walkVars, findVars, subsetVars, runVars, contigVars>>
notContig == <<walkVars, findVars, subsetVars, runVars, avlVars>>

(***************************************************************************)
(* Bounds of the model.                                                    *)
(***************************************************************************)
MaxWalkCalls == 2
MaxPrevPoints == 2
MaxPathLinks == 3
MaxAvlRows == 4
MaxTreeNodes == 4

(***************************************************************************)
(* Generic helpers.                                                        *)
(***************************************************************************)
None == << >>
Some(x) == <<x>>

RECURSIVE SqrtSearch(_, _, _)
SqrtSearch(n, lo, hi) ==
    IF lo >= hi THEN lo
    ELSE LET mid == (lo + hi + 1) \div 2
         IN  IF mid * mid <= n THEN SqrtSearch(n, mid, hi)
             ELSE SqrtSearch(n, lo, mid - 1)

\* math.sqrt on the perfect squares the model uses
Sqrt(n) == SqrtSearch(n, 0, n)

\* linear.getNormSq: squared planar distance
getNormSq(x1, y1, x2, y2) == (x2 - x1) * (x2 - x1) + (y2 - y1) * (y2 - y1)

\* linear.getNorm: planar distance
getNorm(x1, y1, x2, y2) == Sqrt(getNormSq(x1, y1, x2, y2))

RECURSIVE SortedSeq(_)
\* the elements of a finite set of integers in ascending order
SortedSeq(S) ==
    IF S = {} THEN << >>
    ELSE LET m == CHOOSE x \in S : \A y \in S : x <= y
         IN  <<m>> \o SortedSeq(S \ {m})

Reverse(s) == [i \in 1..Len(s) |-> s[Len(s) + 1 - i]]

(***************************************************************************)
(* Graph model: GraphNode, GraphLink, GraphLib.                            *)
(* A node object is a position in the graph's sequence of nodes; a link    *)
(* object of a graph is named by its uid.                                  *)
(***************************************************************************)
GraphNode(ident, x, y) == [id |-> ident, coordX |-> x, coordY |-> y]

GraphLink(ident, origNode, destNode) ==
    [id |-> ident, origNode |-> origNode, destNode |-> destNode,
     distance |-> 0, uid |-> -1]

\* GraphLib.__init__: nodeMap is None for a single-path graph
GraphLib(singlePath) ==
    [singlePath |-> singlePath, nodes |-> << >>, linkMap |-> << >>,
     prevLinkID |-> 0, outgoing |-> << >>]

\* A new node object in graph g (its outgoingLinkMap starts empty).
NewNode(g, node) ==
    [g EXCEPT !.nodes = Append(@, node), !.outgoing = Append(@, << >>)]

\* map m with key k set to v (a Python dict assignment)
DictSet(m, k, v) == [x \in (DOMAIN m) \cup {k} |-> IF x = k THEN v ELSE m[x]]

\* GraphLib.addLink
addLink(g, link) ==
    LET o == g.nodes[link.origNode]
        d == g.nodes[link.destNode]
        dist == getNorm(o.coordX, o.coordY, d.coordX, d.coordY)
        ourID == IF g.singlePath THEN g.prevLinkID ELSE link.id
        newLink == [link EXCEPT !.distance = dist, !.uid = ourID]
    IN  [g EXCEPT
            !.linkMap = DictSet(@, ourID, newLink),
            !.prevLinkID = IF g.singlePath THEN @ + 1 ELSE link.id,
            !.outgoing[link.origNode] = DictSet(@, link.id, ourID)]

\* GraphLink.isComplementary: node identity, on the links of graph g
isComplementary(g, self, otherLink) ==
    /\ g.linkMap[otherLink].destNode = g.linkMap[self].origNode
    /\ g.linkMap[otherLink].origNode = g.linkMap[self].destNode

\* node.outgoingLinkMap.values(): CPython 2 iterates a dict of small integer
\* keys in ascending key order
OutgoingLinks(g, node) ==
    LET m == g.outgoing[node]
        keys == SortedSeq(DOMAIN m)
    IN  [i \in 1..Len(keys) |-> m[keys[i]]]

RECURSIVE AddNodes(_, _)
AddNodes(g, ns) ==
    IF ns = << >> THEN g ELSE AddNodes(NewNode(g, Head(ns)), Tail(ns))

RECURSIVE AddLinks(_, _)
AddLinks(g, ls) ==
    IF ls = << >> THEN g ELSE AddLinks(addLink(g, Head(ls)), Tail(ls))

(***************************************************************************)
(* The road network of the runs: nodes A(0,0) B(100,0) C(200,0) D(100,75), *)
(* links L1 A->B, L2 B->C, their reverses L1r, L2r, and the triangle       *)
(* B->D->A.                                                                *)
(***************************************************************************)
Nd == [A |-> 1, B |-> 2, C |-> 3, D |-> 4]
Lk == [L1 |-> 1, L2 |-> 2, L1r |-> 3, L2r |-> 4, BD |-> 5, DA |-> 6]

NetNodes == <<GraphNode(Nd.A, 0, 0), GraphNode(Nd.B, 100, 0),
              GraphNode(Nd.C, 200, 0), GraphNode(Nd.D, 100, 75)>>

NetLinks == <<GraphLink(Lk.L1, Nd.A, Nd.B), GraphLink(Lk.L2, Nd.B, Nd.C),
              GraphLink(Lk.L1r, Nd.B, Nd.A), GraphLink(Lk.L2r, Nd.C, Nd.B),
              GraphLink(Lk.BD, Nd.B, Nd.D), GraphLink(Lk.DA, Nd.D, Nd.A)>>

\* the populated multigraph (vista_network.fillGraph: addNode, then addLink)
vistaNetwork == AddLinks(AddNodes(GraphLib(FALSE), NetNodes), NetLinks)

\* the network of the line A-B-C alone: L1, L2, L1r, L2r
lineNetwork ==
    AddLinks(AddNodes(GraphLib(FALSE), SubSeq(NetNodes, 1, 3)),
             SubSeq(NetLinks, 1, 4))

\* a network with two ways from link s to link k and two from k to link d:
\* over w1, w2 (130 long) or f1..f5 (50 long), then over a1, a2 (78 long) or
\* e1, e2, e3 (30 long)
Dn == [S0 |-> 1, S1 |-> 2, W1 |-> 3, K0 |-> 4, F1 |-> 5, F2 |-> 6, F3 |-> 7, F4 |-> 8, K1 |-> 9, A1 |-> 10, D0 |-> 11, E1 |-> 12, E2 |-> 13, D1 |-> 14]
Dk == [s |-> 11, w1 |-> 12, w2 |-> 13, f1 |-> 14, f2 |-> 15, f3 |-> 16, f4 |-> 17, f5 |-> 18, k |-> 19, a1 |-> 20, a2 |-> 21, e1 |-> 22, e2 |-> 23, e3 |-> 24, d |-> 25]

DetourNodes ==
    <<GraphNode(Dn.S0, -10, 0), GraphNode(Dn.S1, 0, 0), GraphNode(Dn.W1, 25, 60),
      GraphNode(Dn.K0, 50, 0), GraphNode(Dn.F1, 10, 0), GraphNode(Dn.F2, 20, 0),
      GraphNode(Dn.F3, 30, 0), GraphNode(Dn.F4, 40, 0), GraphNode(Dn.K1, 60, 0),
      GraphNode(Dn.A1, 75, 36), GraphNode(Dn.D0, 90, 0), GraphNode(Dn.E1, 70, 0),
      GraphNode(Dn.E2, 80, 0), GraphNode(Dn.D1, 100, 0)>>

DetourLinks ==
    <<GraphLink(Dk.s, Dn.S0, Dn.S1), GraphLink(Dk.w1, Dn.S1, Dn.W1),
      GraphLink(Dk.w2, Dn.W1, Dn.K0), GraphLink(Dk.f1, Dn.S1, Dn.F1),
      GraphLink(Dk.f2, Dn.F1, Dn.F2), GraphLink(Dk.f3, Dn.F2, Dn.F3),
      GraphLink(Dk.f4, Dn.F3, Dn.F4), GraphLink(Dk.f5, Dn.F4, Dn.K0),
      GraphLink(Dk.k, Dn.K0, Dn.K1), GraphLink(Dk.a1, Dn.K1, Dn.A1),
      GraphLink(Dk.a2, Dn.A1, Dn.D0), GraphLink(Dk.e1, Dn.K1, Dn.E1),
      GraphLink(Dk.e2, Dn.E1, Dn.E2), GraphLink(Dk.e3, Dn.E2, Dn.D0),
      GraphLink(Dk.d, Dn.D0, Dn.D1)>>

detourNetwork == AddLinks(AddNodes(GraphLib(FALSE), DetourNodes), DetourLinks)

\* a network with a two-way pair of links of length 0 between two nodes at
\* the same place, and a way out: z1 P->Q, z2 Q->P, e Q->R
Zk == [z1 |-> 51, z2 |-> 52, e |-> 53]

loopNetwork ==
    AddLinks(AddNodes(GraphLib(FALSE),
                      <<GraphNode(1, 0, 0), GraphNode(2, 0, 0),
                        GraphNode(3, 10, 0)>>),
             <<GraphLink(Zk.z1, 1, 2), GraphLink(Zk.z2, 2, 1),
               GraphLink(Zk.e, 2, 3)>>)

\* the link and node objects of graph g under other names: the uid that
\* addLink gave each link stays as it is
Relabel(g, nodeOff, linkOff) ==
    [g EXCEPT
        !.linkMap = [k \in { j + linkOff : j \in DOMAIN g.linkMap } |->
                        [g.linkMap[k - linkOff] EXCEPT
                            !.origNode = @ + nodeOff, !.destNode = @ + nodeOff]],
        !.outgoing = [n \in DOMAIN g.outgoing |->
                        [id \in DOMAIN g.outgoing[n] |->
                            g.outgoing[n][id] + linkOff]]]

\* the objects of two graphs side by side, none of them shared
TwoGraphs(g1, g2) ==
    [singlePath |-> g1.singlePath,
     nodes |-> g1.nodes \o g2.nodes,
     linkMap |-> g1.linkMap @@ g2.linkMap,
     prevLinkID |-> g1.prevLinkID,
     outgoing |-> g1.outgoing \o g2.outgoing]

\* a single-path graph of three links in a row starting at (0, y)
RowSubset(y) ==
    AddLinks(AddNodes(GraphLib(TRUE),
                      <<GraphNode(1, 0, y), GraphNode(2, 10, y),
                        GraphNode(3, 20, y), GraphNode(4, 30, y)>>),
             <<GraphLink(1, 1, 2), GraphLink(2, 2, 3), GraphLink(3, 3, 4)>>)

\* the link objects of the two single-path graphs: a0, a1, a2 and b0, b1, b2
Sk == [a0 |-> 30, a1 |-> 31, a2 |-> 32, b0 |-> 40, b1 |-> 41, b2 |-> 42]

\* the single-path graphs of two trips, as one engine sees them
subsetA == Relabel(RowSubset(0), 0, Sk.a0)
subsetB == Relabel(RowSubset(20), Len(RowSubset(0).nodes), Sk.b0)
tripSubsets == TwoGraphs(subsetA, subsetB)

(***************************************************************************)
(* PointOnLink.                                                            *)
(***************************************************************************)
PointOnLink(g, link, dist, nonPerpPenalty, refDist) ==
    LET l == g.linkMap[link]
        o == g.nodes[l.origNode]
        d == g.nodes[l.destNode]
        dd == IF l.distance = 0 THEN 0 ELSE dist
        norm == IF l.distance = 0 THEN 1 ELSE l.distance
    IN  [link |-> link, dist |-> dist, nonPerpPenalty |-> nonPerpPenalty,
         refDist |-> refDist,
         pointX |-> o.coordX + ((d.coordX - o.coordX) * dd) \div norm,
         pointY |-> o.coordY + ((d.coordY - o.coordY) * dd) \div norm]

(***************************************************************************)
(* Planar geometry kernel and GraphLib.findPointsOnLinks.                  *)
(***************************************************************************)
LIMIT_CLOSEST_POINTS == 8

\* linear.pointDistSq(p, a, b, |ab|) on a segment parallel to an axis:
\* (distSq, alongDist, perpendicular).  The foot of the perpendicular is
\* kept when it lies within [0, |ab|] and clamped to the nearer end if not.
pointDistSq(px, py, x1, y1, x2, y2, norm) ==
    LET along == ((px - x1) * (x2 - x1) + (py - y1) * (y2 - y1)) \div norm
        perpendicular == 0 <= along /\ along <= norm
        linkDist == IF along < 0 THEN 0 ELSE IF along > norm THEN norm ELSE along
        footX == x1 + ((x2 - x1) * linkDist) \div norm
        footY == y1 + ((y2 - y1) * linkDist) \div norm
    IN  <<getNormSq(px, py, footX, footY), linkDist, perpendicular>>

\* findPointsOnLinks 199-202: the point of link on graph g nearest to (x, y)
Projection(g, link, x, y) ==
    LET l == g.linkMap[link]
        o == g.nodes[l.origNode]
        d == g.nodes[l.destNode]
        r == pointDistSq(x, y, o.coordX, o.coordY, d.coordX, d.coordY, l.distance)
    IN  [distSq |-> r[1],
         point |-> PointOnLink(g, link, r[2], ~r[3], Sqrt(r[1]))]

\* findPointsOnLinks 210-216 with a previous point at exactly the secondary
\* radius taken as close
NearPreviousInclusive(pointOnLink, prevPoints, secondaryRadiusSq) ==
    \E i \in 1..Len(prevPoints) :
        getNormSq(pointOnLink.pointX, pointOnLink.pointY,
                  prevPoints[i].pointX, prevPoints[i].pointY) <= secondaryRadiusSq

\* findPointsOnLinks 210-216: the point is close to a previous point
NearPrevious(pointOnLink, prevPoints, secondaryRadiusSq) ==
    \E i \in 1..Len(prevPoints) :
        getNormSq(pointOnLink.pointX, pointOnLink.pointY,
                  prevPoints[i].pointX, prevPoints[i].pointY) < secondaryRadiusSq

\* findPointsOnLinks 191-216: retSet before the duplicates are filtered
Proposed(g, pointX, pointY, radius, primaryRadius, secondaryRadius, prevPoints) ==
    LET radiusSq == radius * radius
        primaryRadiusSq == primaryRadius * primaryRadius
        secondaryRadiusSq == secondaryRadius * secondaryRadius
        proj == [link \in DOMAIN g.linkMap |-> Projection(g, link, pointX, pointY)]
    IN  { proj[link].point : link \in
            { l \in DOMAIN g.linkMap :
                /\ proj[l].distSq <= radiusSq
                /\ \/ proj[l].distSq <= primaryRadiusSq
                   \/ NearPrevious(proj[l].point, prevPoints, secondaryRadiusSq) } }

\* findPointsOnLinks 218-235: nonperpendicular matches to the start of a link
\* are dropped when the end of a link into the same node is matched as well
FilterDuplicates(g, retSet) ==
    LET nonPerpSetStarts ==
            { p \in retSet : p.nonPerpPenalty /\ p.dist = 0 }
        nonPerpSetEnds ==
            { p \in retSet : /\ p.nonPerpPenalty /\ p.dist # 0
                             /\ p.dist = g.linkMap[p.link].distance }
    IN  retSet \ { p \in nonPerpSetStarts :
                     \E e \in nonPerpSetEnds :
                        /\ g.linkMap[e.link].destNode = g.linkMap[p.link].origNode
                        /\ e.refDist = p.refDist }

RECURSIVE SortedOrders(_)
\* findPointsOnLinks 237-240: list(retSet) is in any order and the sort by
\* refDist is stable, so points of equal refDist come out in any order
SortedOrders(S) ==
    IF S = {} THEN {<< >>}
    ELSE UNION { { <<m>> \o t : t \in SortedOrders(S \ {m}) } :
                 m \in { x \in S : \A y \in S : x.refDist <= y.refDist } }

\* findPointsOnLinks 241: ret[0:limitClosestPoints]
SortedPrefixes(retSet, limitClosestPoints) ==
    { SubSeq(f, 1, IF limitClosestPoints < Len(f) THEN limitClosestPoints ELSE Len(f)) :
        f \in SortedOrders(retSet) }

\* the lists findPointsOnLinks may return
findPointsOnLinks(g, pointX, pointY, radius, primaryRadius, secondaryRadius, prevPoints, limitClosestPoints) ==
    SortedPrefixes(
        FilterDuplicates(g, Proposed(g, pointX, pointY, radius, primaryRadius,
                                     secondaryRadius, prevPoints)),
        limitClosestPoints)

\* the network without its diagonal link: L1, L2, L1r, L2r and B->D
findNetwork == AddLinks(AddNodes(GraphLib(FALSE), NetNodes), SubSeq(NetLinks, 1, 5))

\* the network of scenario 1: L1 A->B and L2 B->C
twoLinkNetwork ==
    AddLinks(AddNodes(GraphLib(FALSE), SubSeq(NetNodes, 1, 3)), SubSeq(NetLinks, 1, 2))

\* the observations that are looked up
Observations ==
    { <<100, 0>>, <<103, -4>>, <<103, 4>>, <<97, -4>>, <<50, 3>>,
      <<150, 0>>, <<100, 30>>, <<204, 3>>, <<0, 0>> }

SearchRadii == {5, 40}
PrimaryRadii == {3, 5, 40}
SecondaryRadii == {0, 30, 31}
ClosestLimits == {1, 2, LIMIT_CLOSEST_POINTS}

\* the tails of the hypotheses of the step before
PrevPointLists(g) ==
    LET pts == { PointOnLink(g, Lk.L1, 70, FALSE, 0),
                 PointOnLink(g, Lk.L1, 100, FALSE, 0),
                 PointOnLink(g, Lk.L2, 50, FALSE, 0) }
    IN  { s \in UNION { [1..n -> pts] : n \in 0..MaxPrevPoints } :
            \A i \in 1..(Len(s) - 1) : s[i].pointX < s[i + 1].pointX }

\* no search is made
FindOff == findGraph = GraphLib(FALSE) /\ findArgs = None /\ findRet = None

\* no subset is built
SubsetOff ==
    /\ treeNodes = << >>
    /\ subset = GraphLib(TRUE)
    /\ outLinkList = << >>
    /\ subsetPc = "off"

\* dumpBusRouteLinks is not running
RunOff ==
    /\ gtfsTrips = << >>
    /\ allResultTrees = << >>
    /\ allSubsets = << >>
    /\ allUsedTripIDs = << >>
    /\ allStopsLookups = << >>
    /\ matchedTrees = << >>
    /\ runArgs = << >>
    /\ runOut = << >>
    /\ runPc = "off"

\* readAVLCSV is not running
AvlOff == avlFile = << >> /\ avl = << >> /\ avlPc = "off"

\* treeContiguous is not running
ContigOff == contigArgs = << >> /\ contigRet = None



(***************************************************************************)
(* Path engine capabilities used by the walker.                            *)
(***************************************************************************)
DISTANCE_FACTOR == 1
DRIFT_FACTOR == 2
NON_PERP_PENALTY_X2 == 3
MAX_HOPS == 12
Inf == 1000000

\* pathEngine.scoreFunction(src, distance, e), in half units; e is None or
\* Some(point):  f_d D + f_r (src.refDist + e.refDist)/2 (1 + (f_p - 1) nonPerp(e))
scoreFunction(src, distance, e) ==
    LET eRef == IF e = None THEN 0 ELSE e[1].refDist
        pen == IF e # None /\ e[1].nonPerpPenalty THEN NON_PERP_PENALTY_X2 ELSE 2
    IN  2 * DISTANCE_FACTOR * distance
          + (DRIFT_FACTOR * (src.refDist + eRef) * pen) \div 2

\* pathEngine.exceedsPreviousCosts(cost): the K-best threshold of the engine
exceedsPreviousCosts(cost) == cost > worstCost

(***************************************************************************)
(* WalkPathProcessor.                                                      *)
(***************************************************************************)
\* _WalkPathNext.__init__ without the length of incomingLink added
WalkPathNextLinkNotAdded(g, orig, dest, prevStruct, incomingLink) ==
    LET d0 == IF prevStruct = None
              THEN g.linkMap[orig.link].distance - orig.dist
              ELSE prevStruct[1].distance
        atDest == incomingLink = dest.link
        dist == IF atDest
                THEN d0 - (g.linkMap[dest.link].distance - dest.dist)
                ELSE d0
        oldBacktrackSet == IF prevStruct # None THEN prevStruct[1].backtrackSet
                           ELSE {}
    IN  [prevStruct |-> prevStruct,
         incomingLink |-> incomingLink,
         distance |-> dist,
         stepCount |-> IF prevStruct = None THEN 0
                       ELSE prevStruct[1].stepCount + 1,
         cost |-> IF atDest THEN scoreFunction(orig, dist, Some(dest))
                  ELSE scoreFunction(orig, dist, None),
         backtrackSet |-> oldBacktrackSet \cup {g.linkMap[incomingLink].uid}]

\* _WalkPathNext.__init__ without the part of dest.link that is not traversed
WalkPathNextWholeLink(g, orig, dest, prevStruct, incomingLink) ==
    LET d0 == IF prevStruct = None
              THEN g.linkMap[orig.link].distance - orig.dist
              ELSE prevStruct[1].distance + g.linkMap[incomingLink].distance
        oldBacktrackSet == IF prevStruct # None THEN prevStruct[1].backtrackSet
                           ELSE {}
    IN  [prevStruct |-> prevStruct,
         incomingLink |-> incomingLink,
         distance |-> d0,
         stepCount |-> IF prevStruct = None THEN 0
                       ELSE prevStruct[1].stepCount + 1,
         cost |-> IF incomingLink = dest.link
                  THEN scoreFunction(orig, d0, Some(dest))
                  ELSE scoreFunction(orig, d0, None),
         backtrackSet |-> oldBacktrackSet \cup {g.linkMap[incomingLink].uid}]

\* _WalkPathNext.__init__(processor, prevStruct, incomingLink)
WalkPathNext(g, orig, dest, prevStruct, incomingLink) ==
    LET d0 == IF prevStruct = None
              THEN g.linkMap[orig.link].distance - orig.dist
              ELSE prevStruct[1].distance + g.linkMap[incomingLink].distance
        atDest == incomingLink = dest.link
        dist == IF atDest
                THEN d0 - (g.linkMap[dest.link].distance - dest.dist)
                ELSE d0
        oldBacktrackSet == IF prevStruct # None THEN prevStruct[1].backtrackSet
                           ELSE {}
    IN  [prevStruct |-> prevStruct,
         incomingLink |-> incomingLink,
         distance |-> dist,
         stepCount |-> IF prevStruct = None THEN 0
                       ELSE prevStruct[1].stepCount + 1,
         cost |-> IF atDest THEN scoreFunction(orig, dist, Some(dest))
                  ELSE scoreFunction(orig, dist, None),
         backtrackSet |-> IF g.linkMap[incomingLink].uid \notin oldBacktrackSet
                          THEN oldBacktrackSet \cup {g.linkMap[incomingLink].uid}
                          ELSE oldBacktrackSet]

RECURSIVE LogWinner(_, _, _)
\* _walkPath 459-467: log the winner's parents into the cache mappings, each
\* under the uid of the parent's link
LogWinner(g, mappings, element) ==
    IF element.prevStruct = None THEN mappings
    ELSE LET prev == element.prevStruct[1]
             prevUid == g.linkMap[prev.incomingLink].uid
         IN  IF prevUid \in DOMAIN mappings
                /\ mappings[prevUid] = element.incomingLink
             THEN mappings
             ELSE LogWinner(g, DictSet(mappings, prevUid, element.incomingLink),
                            prev)

\* _walkPath 455-467: the back-cache after walkPathElem has won
CacheWinner(g, cache, destLink, walkPathElem) ==
    LET destUid == g.linkMap[destLink].uid
        c1 == IF destUid \in DOMAIN cache THEN cache
              ELSE DictSet(cache, destUid, << >>)
    IN  IF walkPathElem.prevStruct = None THEN c1
        ELSE DictSet(c1, destUid,
                     LogWinner(g, c1[destUid], walkPathElem.prevStruct[1]))

\* _walkPath 474-478: the links to look at from walkPathElem
ExpansionList(g, cache, destLink, walkPathElem) ==
    LET destUid == g.linkMap[destLink].uid
        inUid == g.linkMap[walkPathElem.incomingLink].uid
    IN  IF destUid \in DOMAIN cache /\ inUid \in DOMAIN cache[destUid]
        THEN <<cache[destUid][inUid]>>
        ELSE OutgoingLinks(g, g.linkMap[walkPathElem.incomingLink].destNode)

\* _walkPath 480-487 without the look at the backtrack set
ExpandableVisited(g, uturns, walkPathElem, link) ==
    uturns \/ ~isComplementary(g, walkPathElem.incomingLink, link)

\* _walkPath 480-487 without the U-turn filter
ExpandableAnyTurn(g, uturns, walkPathElem, link) ==
    g.linkMap[link].uid \notin walkPathElem.backtrackSet

\* _walkPath 480-487: whether link is enqueued after walkPathElem
Expandable(g, uturns, walkPathElem, link) ==
    /\ uturns \/ ~isComplementary(g, walkPathElem.incomingLink, link)
    /\ g.linkMap[link].uid \notin walkPathElem.backtrackSet

\* _walkPath 479-490: the frames appended to the queue
NewFrames(g, orig, dest, cache, uturns, walkPathElem) ==
    LET myList == ExpansionList(g, cache, dest.link, walkPathElem)
        keep == SelectSeq(myList,
                    LAMBDA link : Expandable(g, uturns, walkPathElem, link))
    IN  [i \in 1..Len(keep) |->
            WalkPathNext(g, orig, dest, Some(walkPathElem), keep[i])]

\* _walkPath 436-446 without the test of the distance
DroppedAnyDistance(walkPathElem) ==
    \/ walkPathElem.stepCount >= limitSteps
    \/ exceedsPreviousCosts(walkPathElem.cost)

\* _walkPath 436-446: the frame is dropped without being looked at
Dropped(walkPathElem) ==
    \/ walkPathElem.stepCount >= limitSteps
    \/ walkPathElem.distance >= backtrackScore
    \/ exceedsPreviousCosts(walkPathElem.cost)

RECURSIVE RetListAll(_)
\* walkPath 417-424 with the first frame's link kept
RetListAll(element) ==
    IF element.prevStruct = None THEN <<element.incomingLink>>
    ELSE Append(RetListAll(element.prevStruct[1]), element.incomingLink)

RECURSIVE RetList(_)
\* walkPath 417-424: the links of the winner's chain, first frame left out
RetList(element) ==
    IF element.prevStruct = None THEN << >>
    ELSE Append(RetList(element.prevStruct[1]), element.incomingLink)

NoPath == [path |-> None, distance |-> 0, cost |-> 0]

\* the points a walkPath call is given
WalkPoints(g) ==
    { PointOnLink(g, p[1], p[2], p[3], p[4]) :
        p \in { q \in { <<Lk.L1, 0, TRUE, 5>>, <<Lk.L1, 50, FALSE, 0>>,
                        <<Lk.L2, 50, FALSE, 2>>, <<Lk.L1r, 50, FALSE, 0>>,
                        <<Lk.L2r, 50, FALSE, 1>>, <<Lk.DA, 0, TRUE, 3>>,
                        <<Dk.s, 0, FALSE, 0>>, <<Dk.d, 5, FALSE, 0>>,
                        <<Sk.a0, 5, FALSE, 0>>, <<Sk.a2, 5, FALSE, 0>>,
                        <<Sk.b0, 5, FALSE, 0>>, <<Sk.b2, 5, FALSE, 0>>,
                        <<Zk.z1, 0, FALSE, 0>>, <<Zk.z2, 0, FALSE, 1>>,
                        <<Zk.e, 5, FALSE, 0>> } :
                 q[1] \in DOMAIN g.linkMap } }

\* limitSteps, limitDistance, limitRadius of the processors that are run
WalkLimits ==
    { [steps |-> MAX_HOPS, distance |-> Inf, radius |-> Inf],
      [steps |-> 2, distance |-> 120, radius |-> 110],
      [steps |-> 1, distance |-> 50, radius |-> 60],
      [steps |-> 0, distance |-> Inf, radius |-> 40] }

\* the K-best thresholds in force during a call, in half units
WorstCosts == {Inf, 100}

\* no processor has been made
WalkOff ==
    /\ backCache = << >> /\ winner = None /\ processingQueue = << >>
    /\ pointOnLinkOrig = None /\ pointOnLinkDest = None
    /\ allowUTurns = TRUE /\ limitSteps = 0 /\ limitDistance = 0
    /\ limitRadius = 0 /\ limitRadiusSq = 0 /\ backtrackScore = 0
    /\ worstCost = Inf /\ walkRet = NoPath /\ walkPc = "idle"
    /\ walkCalls = 0 /\ enqueued = << >> /\ cacheAtCall = << >>
    /\ walkGraph = GraphLib(FALSE)

\* WalkPathProcessor.__init__
WalkInit ==
    /\ FindOff
    /\ SubsetOff
    /\ RunOff
    /\ AvlOff
    /\ ContigOff
    /\ backCache = << >>
    /\ winner = None
    /\ processingQueue = << >>
    /\ pointOnLinkOrig = None
    /\ pointOnLinkDest = None
    /\ allowUTurns \in BOOLEAN
    /\ \E lim \in WalkLimits :
          /\ limitSteps = lim.steps
          /\ limitDistance = lim.distance
          /\ limitRadius = lim.radius
          /\ limitRadiusSq = IF lim.radius < Inf THEN lim.radius * lim.radius
                             ELSE Inf
          /\ backtrackScore = lim.distance
    /\ worstCost = Inf
    /\ walkRet = NoPath
    /\ walkPc = "idle"
    /\ walkCalls = 0
    /\ enqueued = << >>
    /\ cacheAtCall = << >>
    /\ walkGraph \in {vistaNetwork, lineNetwork, detourNetwork, tripSubsets,
                      loopNetwork}

\* walkPath 386-388 with the radius test left out
TooFarNever(src, dst) == FALSE

\* walkPath 386-388: are the points too far away to begin with?
TooFar(src, dst) ==
    getNormSq(dst.pointX, dst.pointY, src.pointX, src.pointY) > limitRadiusSq

\* walkPath 379-402: the call, up to the start of the search
WalkPathCall(src, dst, worst) ==
    /\ walkPc = "idle"
    /\ walkCalls < MaxWalkCalls
    /\ walkCalls' = walkCalls + 1
    /\ worstCost' = worst
    /\ pointOnLinkOrig' = Some(src)
    /\ pointOnLinkDest' = Some(dst)
    /\ winner' = None
    /\ backtrackScore' = limitDistance
    /\ cacheAtCall' = backCache
    /\ IF TooFar(src, dst)
       THEN /\ walkRet' = NoPath
            /\ enqueued' = << >>
            /\ UNCHANGED <<processingQueue, walkPc>>
       ELSE LET first == WalkPathNext(walkGraph, src, dst, None, src.link)
            IN  /\ processingQueue' = <<first>>
                /\ enqueued' = <<first>>
                /\ walkPc' = "search"
                /\ UNCHANGED walkRet
    /\ UNCHANGED <<backCache, walkConfig, notWalk>>

\* walkPath 405-406 with _walkPath: one turn of the search loop
WalkPathStep ==
    /\ walkPc = "search"
    /\ processingQueue # << >>
    /\ LET walkPathElem == Head(processingQueue)
           rest == Tail(processingQueue)
           dest == pointOnLinkDest[1]
       IN  IF Dropped(walkPathElem)
           THEN /\ processingQueue' = rest
                /\ UNCHANGED <<winner, backtrackScore, backCache, enqueued>>
           ELSE IF walkPathElem.incomingLink = dest.link
           THEN /\ winner' = Some(walkPathElem)
                /\ backtrackScore' = walkPathElem.distance
                /\ backCache' = CacheWinner(walkGraph, backCache, dest.link,
                                             walkPathElem)
                /\ processingQueue' = rest
                /\ UNCHANGED enqueued
           ELSE LET new == NewFrames(walkGraph, pointOnLinkOrig[1], dest,
                                     backCache, allowUTurns, walkPathElem)
                IN  /\ processingQueue' = rest \o new
                    /\ enqueued' = enqueued \o new
                    /\ UNCHANGED <<winner, backtrackScore, backCache>>
    /\ UNCHANGED <<pointOnLinkOrig, pointOnLinkDest, walkConfig, worstCost,
                   walkRet, walkPc, walkCalls, cacheAtCall, notWalk>>

\* walkPath 413-428: the return once the queue has drained
WalkPathReturn ==
    /\ walkPc = "search"
    /\ processingQueue = << >>
    /\ walkRet' = IF winner # None
                  THEN [path |-> Some(RetList(winner[1])),
                        distance |-> winner[1].distance,
                        cost |-> winner[1].cost]
                  ELSE NoPath
    /\ walkPc' = "idle"
    /\ UNCHANGED <<backCache, winner, backtrackScore, processingQueue,
                   pointOnLinkOrig, pointOnLinkDest, walkConfig, worstCost,
                   walkCalls, enqueued, cacheAtCall, notWalk>>

\* constructPath(gtfsShapes, subset), as called at transit_gtfs.py 541: the
\* points of one call are on the links of one trip's subset
OnOneSubset(g, src, dst) ==
    g = tripSubsets =>
        (src.link \in DOMAIN subsetA.linkMap <=> dst.link \in DOMAIN subsetA.linkMap)

WalkNext ==
    \/ \E src \in WalkPoints(walkGraph), dst \in WalkPoints(walkGraph),
          worst \in WorstCosts :
          /\ OnOneSubset(walkGraph, src, dst)
          /\ WalkPathCall(src, dst, worst)
    \/ WalkPathStep
    \/ WalkPathReturn

SpecWalk == WalkInit /\ [][WalkNext]_vars

\* walkPath 404-406: the loop of a call goes on until the queue is empty,
\* and the call then returns
SpecWalkFair ==
    SpecWalk /\ WF_vars(WalkPathStep) /\ WF_vars(WalkPathReturn)

\* the arguments of a call are drawn
FindInit ==
    /\ WalkOff
    /\ SubsetOff
    /\ RunOff
    /\ AvlOff
    /\ ContigOff
    /\ findGraph \in {findNetwork, twoLinkNetwork}
    /\ \E obs \in Observations, radius \in SearchRadii, primaryRadius \in PrimaryRadii,
          secondaryRadius \in SecondaryRadii, prevPoints \in PrevPointLists(findGraph),
          limitClosestPoints \in ClosestLimits :
            findArgs = Some([pointX |-> obs[1], pointY |-> obs[2], radius |-> radius,
                             primaryRadius |-> primaryRadius,
                             secondaryRadius |-> secondaryRadius,
                             prevPoints |-> prevPoints,
                             limitClosestPoints |-> limitClosestPoints])
    /\ findRet = None

\* one call of findPointsOnLinks
FindPointsOnLinksCall ==
    /\ findRet = None
    /\ \E ret \in findPointsOnLinks(findGraph, findArgs[1].pointX, findArgs[1].pointY,
                    findArgs[1].radius, findArgs[1].primaryRadius,
                    findArgs[1].secondaryRadius, findArgs[1].prevPoints,
                    findArgs[1].limitClosestPoints) :
          findRet' = Some(ret)
    /\ UNCHANGED <<findGraph, findArgs, notFind>>

FindNext == FindPointsOnLinksCall

SpecFind == FindInit /\ [][FindNext]_vars

(***************************************************************************)
(* buildSubset and embellishSubset (transit_gtfs.py 220-384).              *)
(* A PathEnd is kept as its chosen link and its routeInfo, both as link    *)
(* ids of the network.                                                     *)
(***************************************************************************)
EMBELLISH_COUNT == 2
EMBELLISH_DEPTH == 1

PathEnd(link, routeInfo) == [link |-> link, routeInfo |-> routeInfo]

\* a fresh GraphNode copied from node n of the network
CopyNode(net, n) ==
    GraphNode(net.nodes[n].id, net.nodes[n].coordX, net.nodes[n].coordY)

\* buildSubset 266-270 and 275-277: a new node, and a link to it from the
\* prior node
BuildLink(st, net, nodeOfNet) ==
    LET withNode == NewNode(st.subset, CopyNode(net, nodeOfNet))
        subsetNode == Len(withNode.nodes)
        newLink == GraphLink(st.prevLinkID, st.subsetNodePrior, subsetNode)
    IN  [st EXCEPT !.subset = addLink(withNode, newLink),
                   !.outLinkList = Append(@, withNode.prevLinkID),
                   !.subsetNodePrior = subsetNode]

RECURSIVE BuildRoute(_, _, _)
\* buildSubset 251-270: the links of one PathEnd's routeInfo
BuildRoute(st, net, routeInfo) ==
    IF routeInfo = << >> THEN st
    ELSE LET link == Head(routeInfo)
         IN  IF link \notin DOMAIN net.linkMap
             THEN BuildRoute(st, net, Tail(routeInfo))
             ELSE BuildRoute(
                    [BuildLink(st, net, net.linkMap[link].origNode)
                        EXCEPT !.prevLinkID = link],
                    net, Tail(routeInfo))

\* buildSubset 248-250: the PathEnd adds no link
Skipped(st, nodes, ourGTFSNode) ==
    \/ Len(ourGTFSNode.routeInfo) < 1
    \/ /\ Len(st.outLinkList) = 1
       /\ ourGTFSNode.routeInfo[1] = nodes[1].link

RECURSIVE BuildNodes(_, _, _, _)
\* buildSubset 244-270: the PathEnds from position i on
BuildNodes(st, net, nodes, i) ==
    IF i > Len(nodes) THEN st
    ELSE IF Skipped(st, nodes, nodes[i])
         THEN BuildNodes(st, net, nodes, i + 1)
         ELSE BuildNodes(BuildRoute(st, net, nodes[i].routeInfo), net, nodes, i + 1)

\* buildSubset: the subset and the list of its links
buildSubset(nodes, net) ==
    LET first == net.linkMap[nodes[1].link]
        start == [subset |-> NewNode(GraphLib(TRUE), CopyNode(net, first.origNode)),
                  outLinkList |-> << >>,
                  subsetNodePrior |-> 1,
                  prevLinkID |-> nodes[1].link]
        looped == BuildNodes(start, net, nodes, 1)
        last == net.linkMap[nodes[Len(nodes)].link]
        done == BuildLink(looped, net, last.destNode)
    IN  [subset |-> done.subset, outLinkList |-> done.outLinkList]

RECURSIVE UseDestNodes(_, _, _)
\* embellishSubset 301-309: the destination nodes of the links at the given
\* positions (0-based), first come first kept
UseDestNodes(st, linkList, indices) ==
    IF indices = << >> THEN st
    ELSE LET link == st.subset.linkMap[linkList[Head(indices) + 1]]
             ident == st.subset.nodes[link.destNode].id
         IN  IF ident \notin DOMAIN st.usedNodes
             THEN UseDestNodes(
                    [st EXCEPT !.usedNodes = DictSet(@, ident, link.destNode),
                               !.usedLinkIDs = @ \cup {link.id}],
                    linkList, Tail(indices))
             ELSE UseDestNodes(st, linkList, Tail(indices))

\* range(a, b): a, a+1, ..., b-1
Range(a, b) == [i \in 1..(IF b > a THEN b - a ELSE 0) |-> a + i - 1]

\* range(a, b, -1): a, a-1, ..., b+1
RangeDown(a, b) == [i \in 1..(IF a > b THEN a - b ELSE 0) |-> a - i + 1]

\* embellishSubset 313-320: node id -> ids of the links that enter it, in the
\* order of vistaNetwork.linkMap
nodeLinkMap(net) ==
    LET ids == SortedSeq(DOMAIN net.linkMap)
        dests == { net.nodes[net.linkMap[l].destNode].id : l \in DOMAIN net.linkMap }
    IN  [n \in dests |->
            SelectSeq(ids, LAMBDA l : net.nodes[net.linkMap[l].destNode].id = n)]

\* _embellishIn 349-354, _embellishOut 375-380: the subset's node for a
\* node of the network, made when its id is not in use
SubsetNodeFor(st, net, nodeOfNet) ==
    LET ident == net.nodes[nodeOfNet].id
    IN  IF ident \notin DOMAIN st.usedNodes
        THEN LET withNode == NewNode(st.subset, CopyNode(net, nodeOfNet))
             IN  [st EXCEPT !.subset = withNode,
                            !.usedNodes = DictSet(@, ident, Len(withNode.nodes))]
        ELSE st

RECURSIVE embellishIn(_, _, _, _, _)
RECURSIVE EmbellishInLinks(_, _, _, _, _, _)
\* _embellishIn 346-358: the links that enter nodeID
EmbellishInLinks(st, net, nodeID, curDepth, nlm, links) ==
    IF links = << >> THEN st
    ELSE LET linkID == Head(links)
         IN  IF linkID \in st.usedLinkIDs
             THEN EmbellishInLinks(st, net, nodeID, curDepth, nlm, Tail(links))
             ELSE LET vistaLink == net.linkMap[linkID]
                      origID == net.nodes[vistaLink.origNode].id
                      st1 == SubsetNodeFor(st, net, vistaLink.origNode)
                      subsetLink == GraphLink(linkID, st1.usedNodes[origID],
                                              st1.usedNodes[nodeID])
                      st2 == [st1 EXCEPT !.subset = addLink(@, subsetLink),
                                         !.usedLinkIDs = @ \cup {linkID}]
                      st3 == embellishIn(st2, net, origID, curDepth - 1, nlm)
                  IN  EmbellishInLinks(st3, net, nodeID, curDepth, nlm, Tail(links))

\* _embellishIn
embellishIn(st, net, nodeID, curDepth, nlm) ==
    IF curDepth <= 0 THEN st
    ELSE IF nodeID \notin DOMAIN nlm THEN st
    ELSE EmbellishInLinks(st, net, nodeID, curDepth, nlm, nlm[nodeID])

RECURSIVE embellishOut(_, _, _, _)
RECURSIVE EmbellishOutLinks(_, _, _, _, _)
\* _embellishOut 373-384: the links that leave nodeID
EmbellishOutLinks(st, net, nodeID, curDepth, links) ==
    IF links = << >> THEN st
    ELSE LET vistaLink == net.linkMap[Head(links)]
         IN  IF vistaLink.id \in st.usedLinkIDs
             THEN EmbellishOutLinks(st, net, nodeID, curDepth, Tail(links))
             ELSE LET destID == net.nodes[vistaLink.destNode].id
                      st1 == SubsetNodeFor(st, net, vistaLink.destNode)
                      subsetLink == GraphLink(vistaLink.id, st1.usedNodes[nodeID],
                                              st1.usedNodes[destID])
                      st2 == [st1 EXCEPT !.subset = addLink(@, subsetLink),
                                         !.usedLinkIDs = @ \cup {vistaLink.id}]
                      st3 == embellishOut(st2, net, destID, curDepth - 1)
                  IN  EmbellishOutLinks(st3, net, nodeID, curDepth, Tail(links))

\* _embellishOut
embellishOut(st, net, nodeID, curDepth) ==
    IF curDepth <= 0 THEN st
    ELSE EmbellishOutLinks(st, net, nodeID, curDepth, OutgoingLinks(net, nodeID))

RECURSIVE EmbellishHead(_, _, _, _, _, _)
\* embellishSubset 323-324
EmbellishHead(st, net, linkList, indices, embellishDepth, nlm) ==
    IF indices = << >> THEN st
    ELSE LET link == st.subset.linkMap[linkList[Head(indices) + 1]]
         IN  EmbellishHead(
                embellishIn(st, net, st.subset.nodes[link.origNode].id,
                            embellishDepth, nlm),
                net, linkList, Tail(indices), embellishDepth, nlm)

RECURSIVE EmbellishTail(_, _, _, _, _)
\* embellishSubset 326-327
EmbellishTail(st, net, linkList, indices, embellishDepth) ==
    IF indices = << >> THEN st
    ELSE LET link == st.subset.linkMap[linkList[Head(indices) + 1]]
         IN  EmbellishTail(
                embellishOut(st, net, st.subset.nodes[link.destNode].id,
                             embellishDepth),
                net, linkList, Tail(indices), embellishDepth)

\* embellishSubset: the subset with the adjoining links added
embellishSubset(g, linkList, net, embellishCount, embellishDepth) ==
    LET n == Len(linkList)
        first == g.linkMap[linkList[1]]
        st0 == [subset |-> g,
                usedNodes |-> IF n > 0
                              THEN DictSet(<< >>, g.nodes[first.origNode].id,
                                           first.origNode)
                              ELSE << >>,
                usedLinkIDs |-> {}]
        midpoint == n \div 2
        st1 == UseDestNodes(st0, linkList, Range(0, midpoint))
        st2 == UseDestNodes(st1, linkList, RangeDown(n - 1, midpoint - 1))
        st3 == EmbellishHead(st2, net, linkList,
                             Range(0, IF n < embellishCount THEN n ELSE embellishCount),
                             embellishDepth, nodeLinkMap(net))
        lowest == IF n - 1 - embellishCount > -1 THEN n - 1 - embellishCount ELSE -1
        st4 == EmbellishTail(st3, net, linkList, RangeDown(n - 1, lowest),
                             embellishDepth)
    IN  st4.subset

\* the walks of k links in the network, as sequences of link ids
Walks(net, k) ==
    { s \in [1..k -> DOMAIN net.linkMap] :
        \A i \in 1..(k - 1) :
            net.linkMap[s[i + 1]].origNode = net.linkMap[s[i]].destNode }

\* the PathEnd list of walk w with a PathEnd at each of the positions in cuts
\* and at the last link, and a second PathEnd on the first link when stay
PathEndList(w, cuts, stay) ==
    LET ends == SortedSeq(((cuts \cap 2..(Len(w) - 1)) \cup {Len(w)}) \ {1})
        firstEnd == PathEnd(w[1], << >>)
    IN  <<firstEnd>> \o (IF stay THEN <<firstEnd>> ELSE << >>)
          \o [i \in 1..Len(ends) |->
                PathEnd(w[ends[i]],
                        SubSeq(w, (IF i = 1 THEN 1 ELSE ends[i - 1]) + 1, ends[i]))]

\* the contiguous PathEnd lists of at most MaxPathLinks links
PathEndLists(net) ==
    { PathEndList(w, cuts, stay) :
        w \in UNION { Walks(net, k) : k \in 1..MaxPathLinks },
        cuts \in SUBSET (2..(MaxPathLinks - 1)),
        stay \in BOOLEAN }

SubsetInit ==
    /\ WalkOff
    /\ FindOff
    /\ RunOff
    /\ AvlOff
    /\ ContigOff
    /\ treeNodes \in PathEndLists(vistaNetwork)
    /\ subset = GraphLib(TRUE)
    /\ outLinkList = << >>
    /\ subsetPc = "start"

\* dumpBusRouteLinks 529: buildSubset(ourGTFSNodes, vistaNetwork)
BuildSubset ==
    /\ subsetPc = "start"
    /\ LET built == buildSubset(treeNodes, vistaNetwork)
       IN  /\ subset' = built.subset
           /\ outLinkList' = built.outLinkList
    /\ subsetPc' = "built"
    /\ UNCHANGED <<treeNodes, notSubset>>

\* dumpBusRouteLinks 534: embellishSubset(subset, outLinkList, vistaNetwork)
EmbellishSubset ==
    /\ subsetPc = "built"
    /\ subset' = embellishSubset(subset, outLinkList, vistaNetwork,
                                 EMBELLISH_COUNT, EMBELLISH_DEPTH)
    /\ subsetPc' = "embellished"
    /\ UNCHANGED <<treeNodes, outLinkList, notSubset>>

SubsetNext ==
    \/ BuildSubset
    \/ EmbellishSubset

SpecSubset == SubsetInit /\ [][SubsetNext]_vars

(***************************************************************************)
(* treeContiguous (transit_gtfs.py 144-218).  Of a PathEnd the function    *)
(* reads restart and totalDist; shapeSeq tells the elements apart.         *)
(***************************************************************************)
\* sys.float_info.min, the smallest positive float: among the whole-number
\* distances used here it compares as 0 does
float_info_min == 0

\* treeContiguous 166-184: the loop, from curIndex on; the result is
\* <<longestStart, longestEnd>>
RECURSIVE ContigLoop(_, _, _, _, _, _)
ContigLoop(nodes, curIndex, startIndex, longestStart, longestEnd, longestDist) ==
    IF curIndex > Len(nodes) THEN <<longestStart, longestEnd>>
    ELSE IF curIndex = Len(nodes) \/ curIndex = 0 \/ nodes[curIndex + 1].restart
        THEN LET dist == nodes[curIndex].totalDist - nodes[startIndex + 1].totalDist
                 wins == curIndex > startIndex /\ startIndex >= 0 /\ dist > longestDist
             IN  IF wins
                     THEN ContigLoop(nodes, curIndex + 1, curIndex, startIndex, curIndex, dist)
                     ELSE ContigLoop(nodes, curIndex + 1, curIndex, longestStart, longestEnd, longestDist)
    ELSE ContigLoop(nodes, curIndex + 1, startIndex, longestStart, longestEnd, longestDist)

\* treeContiguous 205: the arrival time lies in the valid interval
InValidInterval(arrivalTime, startTime, endTime) ==
    /\ startTime = None \/ arrivalTime >= startTime[1]
    /\ endTime = None \/ arrivalTime <= endTime[1]

\* treeContiguous 195-207: flag
ContigTimeFlag(gtfsStopTimes, startTime, endTime) ==
    \/ gtfsStopTimes = None
    \/ Len(gtfsStopTimes[1]) = 0
    \/ \E i \in 1..Len(gtfsStopTimes[1]) :
          InValidInterval(gtfsStopTimes[1][i], startTime, endTime)

\* the pair treeContiguous returns
ContigReturn(nodes, start) == [raised |-> "", nodes |-> nodes, start |-> start]

\* treeContiguous 144-218; an empty list fails in the message of line 217
treeContiguous(nodes, gtfsStopTimes, startTime, endTime) ==
    LET longest == ContigLoop(nodes, 0, -1, -1, Len(nodes), float_info_min)
        longestStart == longest[1]
        longestEnd == longest[2]
    IN  IF longestStart >= 0
            THEN IF ~ContigTimeFlag(gtfsStopTimes, startTime, endTime)
                     THEN ContigReturn(None, 0)
                     ELSE ContigReturn(Some(SubSeq(nodes, longestStart + 1, longestEnd)), longestStart)
        ELSE IF Len(nodes) = 0 THEN [raised |-> "IndexError", nodes |-> None, start |-> 0]
        ELSE ContigReturn(None, 0)

(***************************************************************************)
(* dumpBusRouteLinks (transit_gtfs.py 455-750): the stops of every trip    *)
(* are matched to the trip's subset, the matches of a stop are reconciled  *)
(* across the trips, and the trips are refined and written out.            *)
(*                                                                         *)
(* The network of the runs: A(0,0), B(100,0), E(100,6), F(0,6) with        *)
(* L1 A->B, X B->E and L2 E->F, so that L1 and L2 run side by side.        *)
(***************************************************************************)
STOP_SEARCH_RADIUS == 800

RunNd == [A |-> 1, B |-> 2, E |-> 3, F |-> 4]
RunLk == [L1 |-> 1, X |-> 2, L2 |-> 3]

runNetwork ==
    AddLinks(AddNodes(GraphLib(FALSE),
                      <<GraphNode(RunNd.A, 0, 0), GraphNode(RunNd.B, 100, 0),
                        GraphNode(RunNd.E, 100, 6), GraphNode(RunNd.F, 0, 6)>>),
             <<GraphLink(RunLk.L1, RunNd.A, RunNd.B),
               GraphLink(RunLk.X, RunNd.B, RunNd.E),
               GraphLink(RunLk.L2, RunNd.E, RunNd.F)>>)

\* gtfs.StopsEntry: the stops, by stop id
gtfsStops ==
    <<[stopID |-> 1, pointX |-> 50, pointY |-> 3],
      [stopID |-> 2, pointX |-> 98, pointY |-> 3]>>

\* path_engine.PathEnd of a matched shape, with its running distance
RunPathEnd(link, routeInfo, totalDist) ==
    [link |-> link, routeInfo |-> routeInfo, restart |-> FALSE, totalDist |-> totalDist]

\* the matched paths of the trips' shapes (gtfsNodes), free of restarts
RunPaths ==
    { <<RunPathEnd(RunLk.L1, << >>, 0), RunPathEnd(RunLk.L1, << >>, 50)>>,
      <<RunPathEnd(RunLk.L1, << >>, 0), RunPathEnd(RunLk.L2, <<RunLk.X, RunLk.L2>>, 150)>>,
      <<RunPathEnd(RunLk.X, << >>, 0), RunPathEnd(RunLk.L2, <<RunLk.L2>>, 60)>> }

\* gtfs.StopTimesEntry
StopTimesEntry(stopSeq, stopID, arrivalTime) ==
    [stopSeq |-> stopSeq, stopID |-> stopID, arrivalTime |-> arrivalTime]

\* gtfs.StopTimesEntry lists: the stops of a trip in stop-sequence order.
\* The valid interval of RunCalls is [2, 4]: arrival 3 lies inside, 1 before.
RunStopTimes ==
    { <<StopTimesEntry(1, 1, 3)>>,
      <<StopTimesEntry(1, 2, 3)>>,
      <<StopTimesEntry(1, 1, 3), StopTimesEntry(2, 2, 3)>>,
      <<StopTimesEntry(1, 1, 1)>>,
      <<StopTimesEntry(1, 1, 1), StopTimesEntry(2, 2, 3)>> }

\* main 832-893: the switches of the command line; -t and -e give the valid
\* interval
RunCall(u, w, x) ==
    [startTime |-> 2, endTime |-> 4, excludeUpstream |-> u,
     widenBegin |-> w, widenEnd |-> w, excludeBegin |-> x, excludeEnd |-> x]

RunCalls ==
    { RunCall(FALSE, FALSE, FALSE), RunCall(TRUE, FALSE, FALSE),
      RunCall(FALSE, TRUE, FALSE), RunCall(FALSE, FALSE, TRUE) }

RunTripIDs == {1, 2}

\* prepareMapStops: the samples to match (a dummy at each end of the path)
\* and the lookup from stop sequence to stop
prepareMapStops(nodes, stopTimes, net) ==
    LET first == net.nodes[net.linkMap[nodes[1].link].origNode]
        last == net.nodes[net.linkMap[nodes[Len(nodes)].link].destNode]
        dummy(n) == [shapeSeq |-> -1, pointX |-> n.coordX, pointY |-> n.coordY]
        shape(st) == [shapeSeq |-> st.stopSeq,
                      pointX |-> gtfsStops[st.stopID].pointX,
                      pointY |-> gtfsStops[st.stopID].pointY]
    IN  [gtfsShapes |-> <<dummy(first)>>
                          \o [i \in 1..Len(stopTimes) |-> shape(stopTimes[i])]
                          \o <<dummy(last)>>,
         gtfsStopsLookup |-> [q \in { stopTimes[i].stopSeq : i \in 1..Len(stopTimes) } |->
                                (CHOOSE i \in 1..Len(stopTimes) :
                                    stopTimes[i].stopSeq = q)]]

\* path_engine.PathEnd of a result tree
ResultEnd(shapeSeq, pointOnLink) ==
    [shapeSeq |-> shapeSeq, pointOnLink |-> pointOnLink, restart |-> FALSE]

\* the points a sample may be matched to: any of the closest points
Candidates(g, sample) ==
    UNION { { l[i] : i \in 1..Len(l) } :
            l \in findPointsOnLinks(g, sample.pointX, sample.pointY,
                                    STOP_SEARCH_RADIUS, STOP_SEARCH_RADIUS,
                                    STOP_SEARCH_RADIUS, << >>, LIMIT_CLOSEST_POINTS) }

RECURSIVE StopMatches(_, _)
\* the PathEnd lists that match each of the samples to one of its candidates
StopMatches(g, samples) ==
    IF samples = << >> THEN { << >> }
    ELSE { <<ResultEnd(Head(samples).shapeSeq, c)>> \o t :
             c \in Candidates(g, Head(samples)), t \in StopMatches(g, Tail(samples)) }

\* pathEngine.constructPath(gtfsShapes, subset): one PathEnd per sample; the
\* dummies are held at the two ends of the path
constructPath(gtfsShapes, g, linkList) ==
    LET n == Len(gtfsShapes)
        lastLink == linkList[Len(linkList)]
        head == ResultEnd(-1, PointOnLink(g, linkList[1], 0, FALSE, 0))
        tail == ResultEnd(-1, PointOnLink(g, lastLink, g.linkMap[lastLink].distance,
                                          FALSE, 0))
    IN  { <<head>> \o mid \o <<tail>> :
            mid \in StopMatches(g, SubSeq(gtfsShapes, 2, n - 1)) }

RunInit ==
    /\ WalkOff
    /\ FindOff
    /\ SubsetOff
    /\ AvlOff
    /\ ContigOff
    /\ gtfsTrips \in [RunTripIDs -> [treeNodes : RunPaths, stopTimes : RunStopTimes]]
    /\ allResultTrees = << >>
    /\ allSubsets = << >>
    /\ allUsedTripIDs = << >>
    /\ allStopsLookups = << >>
    /\ matchedTrees = << >>
    /\ runArgs \in RunCalls
    /\ runOut = [tripIndex |-> 0, longestStart |-> None, rows |-> << >>,
                 ret |-> << >>, warmupStartTime |-> runArgs.startTime,
                 cooldownEndTime |-> runArgs.endTime, busStop |-> << >>,
                 frequency |-> << >>, busRoute |-> << >>]
    /\ runPc = "match"

\* the arrival times of a list of stop times
ArrivalTimes(stopTimes) == [i \in 1..Len(stopTimes) |-> stopTimes[i].arrivalTime]

\* dumpBusRouteLinks 512-553: the next trip is skipped, or matched to its
\* subset
MatchTrip ==
    /\ runPc = "match"
    /\ LET tripIDs == SortedSeq(DOMAIN gtfsTrips)
           tripID == tripIDs[runOut.tripIndex + 1]
           contig == treeContiguous(gtfsTrips[tripID].treeNodes,
                                    Some(ArrivalTimes(gtfsTrips[tripID].stopTimes)),
                                    Some(runArgs.startTime), Some(runArgs.endTime))
           ourGTFSNodes == contig.nodes[1]
           built == buildSubset(ourGTFSNodes, runNetwork)
           g == embellishSubset(built.subset, built.outLinkList, runNetwork,
                                EMBELLISH_COUNT, EMBELLISH_DEPTH)
           prepared == prepareMapStops(ourGTFSNodes, gtfsTrips[tripID].stopTimes,
                                       runNetwork)
       IN  /\ runOut' = [runOut EXCEPT !.tripIndex = @ + 1,
                                       !.longestStart = Some(contig.start)]
           /\ runPc' = IF runOut.tripIndex + 1 = Len(tripIDs) THEN "reconcile"
                       ELSE "match"
           /\ IF contig.nodes = None
                 THEN UNCHANGED <<allResultTrees, matchedTrees, allSubsets,
                                  allUsedTripIDs, allStopsLookups>>
                 ELSE /\ \E resultTree \in constructPath(prepared.gtfsShapes, g, built.outLinkList) :
                           /\ allResultTrees' = DictSet(allResultTrees, tripID, resultTree)
                           /\ matchedTrees' = DictSet(matchedTrees, tripID, resultTree)
                      /\ allSubsets' = DictSet(allSubsets, tripID, g)
                      /\ allUsedTripIDs' = Append(allUsedTripIDs, tripID)
                      /\ allStopsLookups' =
                           DictSet(allStopsLookups, tripID,
                                   [q \in DOMAIN prepared.gtfsStopsLookup |->
                                       gtfsTrips[tripID].stopTimes[prepared.gtfsStopsLookup[q]].stopID])
    /\ UNCHANGED <<gtfsTrips, runArgs, notRun>>

\* the elements of a sequence
Elements(q) == { q[i] : i \in 1..Len(q) }

\* dumpBusRouteLinks 581-583: the PathEnds of the stops, as <<trip, index>>,
\* the dummy at each end left out
TreeEntries(trees, used) ==
    UNION { { <<t, i>> : i \in 2..(Len(trees[t]) - 1) } : t \in Elements(used) }

\* dumpBusRouteLinks 585: the stop a PathEnd was matched for
StopOf(trees, lookups, e) == lookups[e[1]][trees[e[1]][e[2]].shapeSeq]

\* dumpBusRouteLinks 579-604: the StopRecord of stop s (linkPresentCnt is
\* counted at 618-623)
StopRecord(trees, used, lookups, subsets, s) ==
    LET entries == { e \in TreeEntries(trees, used) : StopOf(trees, lookups, e) = s }
        uidOf(e) == trees[e[1]][e[2]].pointOnLink.link
        links == { uidOf(e) : e \in entries }
        trips == { e[1] : e \in entries }
    IN  [linkCounts |-> [u \in links |-> Cardinality({ e \in entries : uidOf(e) = u })],
         linkPresentCnt |->
            [u \in links |->
                Cardinality({ t \in trips : u \in DOMAIN subsets[t].linkMap })],
         referents |-> [t \in trips |-> SortedSeq({ e[2] : e \in { x \in entries : x[1] = t } })],
         refCount |-> Cardinality(entries)]

\* tuple a sorts before tuple b
TupleLess(a, b) ==
    \/ a[1] < b[1]
    \/ a[1] = b[1] /\ a[2] < b[2]
    \/ a[1] = b[1] /\ a[2] = b[2] /\ a[3] < b[3]

RECURSIVE SortedTuples(_)
\* sorted(sortList)
SortedTuples(S) ==
    IF S = {} THEN << >>
    ELSE LET m == CHOOSE x \in S : \A y \in S \ {x} : TupleLess(x, y)
         IN  <<m>> \o SortedTuples(S \ {m})

\* dumpBusRouteLinks 630-635: the links voted for a stop, the most popular last
SortList(stopRecord) ==
    SortedTuples({ <<stopRecord.linkPresentCnt[u], stopRecord.linkCounts[u], u>> :
                     u \in DOMAIN stopRecord.linkCounts })

\* dumpBusRouteLinks 647 with the links of the trip's subset looked up in
\* allSubsetLinks
InSubsetLinksOfTrip(subsets, tripID, linkID) ==
    IF linkID \in DOMAIN subsets[tripID].linkMap THEN "yes" ELSE "no"

\* dumpBusRouteLinks 647: `sortList[-1][2] in subsetLinks[tripID]` reads the
\* local subsetLinks, which line 624 deleted: UnboundLocalError
InSubsetLinks(subsets, tripID, linkID) == "raise"

\* dumpBusRouteLinks 646-658: one PathEnd of a stop against the link `best`
VoteEntry(st, subsets, tripID, i, best) ==
    IF st.raised THEN st
    ELSE IF st.trees[tripID][i].pointOnLink.link # best
    THEN LET found == InSubsetLinks(subsets, tripID, best)
         IN  IF found = "raise" THEN [st EXCEPT !.raised = TRUE]
             ELSE IF found = "yes"
             THEN [st EXCEPT
                     !.trees[tripID] =
                        [k \in 1..Len(@) |->
                            IF k = i
                            THEN [@[k] EXCEPT !.restart = TRUE,
                                              !.pointOnLink.link = best,
                                              !.pointOnLink.dist = -1]
                            ELSE IF k = i + 1 THEN [@[k] EXCEPT !.restart = TRUE]
                            ELSE @[k]],
                     !.count = @ + 1]
             ELSE st
    ELSE [st EXCEPT !.count = @ + 1]

RECURSIVE VoteIndices(_, _, _, _, _)
\* dumpBusRouteLinks 642-658: the PathEnds of one trip
VoteIndices(st, subsets, tripID, indices, best) ==
    IF indices = << >> THEN st
    ELSE VoteIndices(VoteEntry(st, subsets, tripID, Head(indices), best),
                     subsets, tripID, Tail(indices), best)

RECURSIVE VoteTrips(_, _, _, _, _)
\* dumpBusRouteLinks 639-658: the trips that refer to the stop
VoteTrips(st, subsets, stopRecord, trips, best) ==
    IF trips = << >> THEN st
    ELSE VoteTrips(VoteIndices(st, subsets, Head(trips),
                               stopRecord.referents[Head(trips)], best),
                   subsets, stopRecord, Tail(trips), best)

RECURSIVE VoteLinks(_, _, _, _)
\* dumpBusRouteLinks 638-662: the links from the most popular one down
VoteLinks(st, subsets, stopRecord, sortList) ==
    IF Len(sortList) > 0 /\ st.count < stopRecord.refCount /\ ~st.raised
    THEN VoteLinks(VoteTrips(st, subsets, stopRecord,
                             SortedSeq(DOMAIN stopRecord.referents),
                             sortList[Len(sortList)][3]),
                   subsets, stopRecord, SubSeq(sortList, 1, Len(sortList) - 1))
    ELSE st

RECURSIVE VoteStops(_, _, _, _, _, _)
\* dumpBusRouteLinks 627-663: the stops whose trips differ, in the order of
\* the dict stopRecords (ascending for small integer keys); votes are the
\* trees the StopRecords were counted from
VoteStops(st, votes, subsets, used, lookups, stops) ==
    IF stops = << >> \/ st.raised THEN st
    ELSE LET stopRecord == StopRecord(votes, used, lookups, subsets, Head(stops))
             next == IF Cardinality(DOMAIN stopRecord.linkCounts) <= 1 THEN st
                     ELSE VoteLinks([st EXCEPT !.count = 0], subsets, stopRecord,
                                    SortList(stopRecord))
         IN  VoteStops(next, votes, subsets, used, lookups, Tail(stops))

\* dumpBusRouteLinks 577-664: the trees after the reconciliation, and whether
\* it raised
reconcile(trees, subsets, used, lookups) ==
    LET entries == TreeEntries(trees, used)
        stops == SortedSeq({ StopOf(trees, lookups, e) : e \in entries })
    IN  IF entries = {} THEN [trees |-> trees, raised |-> TRUE, count |-> 0]
        ELSE VoteStops([trees |-> trees, raised |-> FALSE, count |-> 0],
                       trees, subsets, used, lookups, stops)

\* dumpBusRouteLinks 577-664
Reconcile ==
    /\ runPc = "reconcile"
    /\ LET st == reconcile(allResultTrees, allSubsets, allUsedTripIDs, allStopsLookups)
       IN  /\ allResultTrees' = st.trees
           /\ runPc' = IF st.raised THEN "raised" ELSE "refine"
    /\ UNCHANGED <<gtfsTrips, allSubsets, allUsedTripIDs, allStopsLookups,
                   matchedTrees, runArgs, runOut, notRun>>

\* pathEngine.refinePath on one PathEnd: the stop is projected again onto the
\* link it is forced to
RefineEnd(g, lookup, e) ==
    IF e.shapeSeq = -1 THEN [e EXCEPT !.restart = FALSE]
    ELSE LET stop == gtfsStops[lookup[e.shapeSeq]]
         IN  [e EXCEPT !.restart = FALSE,
                       !.pointOnLink =
                          Projection(g, e.pointOnLink.link, stop.pointX, stop.pointY).point]

\* the links walked in subset g from link a to link b, a left out; None when
\* b cannot be reached from a
RouteBetween(g, a, b) ==
    IF a = b THEN Some(<< >>)
    ELSE LET found == { k \in 2..Cardinality(DOMAIN g.linkMap) :
                          \E w \in Walks(g, k) : w[1] = a /\ w[k] = b }
         IN  IF found = {} THEN None
             ELSE LET k == CHOOSE n \in found : \A m \in found : n <= m
                      w == CHOOSE v \in Walks(g, k) : v[1] = a /\ v[k] = b
                  IN  Some(SubSeq(w, 2, k))

\* dumpBusRouteLinks 670-678: refinePath with the trip's links forced, then
\* the dummy ends are stripped off.  routeInfo holds the links walked from
\* the PathEnd before; a PathEnd that cannot be reached is a restart.
refineTrip(resultTree, g, lookup) ==
    LET refined ==
            [i \in 1..Len(resultTree) |->
                LET e == RefineEnd(g, lookup, resultTree[i])
                    route == IF i = 1 THEN Some(<< >>)
                             ELSE RouteBetween(g, resultTree[i - 1].pointOnLink.link,
                                               e.pointOnLink.link)
                IN  [shapeSeq |-> e.shapeSeq, pointOnLink |-> e.pointOnLink,
                     restart |-> (route = None),
                     routeInfo |-> IF route = None THEN << >> ELSE route[1]]]
    IN  SubSeq(refined, 2, Len(refined) - 1)

RECURSIVE StopMatchLoop(_, _, _, _, _)
\* dumpBusRouteLinks 693-707: the PathEnds (by position) whose stop time lies
\* in the valid interval; acc is <<stopMatches, rejectFlag, KeyError>>
StopMatchLoop(args, gtfsStopsLookup, resultTree, i, acc) ==
    IF i > Len(resultTree) THEN acc
    ELSE IF resultTree[i].shapeSeq \notin DOMAIN gtfsStopsLookup
        THEN [acc EXCEPT !.raised = TRUE]
    ELSE LET t == gtfsStopsLookup[resultTree[i].shapeSeq].arrivalTime
         IN  IF \/ args.excludeBegin /\ t < args.startTime
                \/ args.excludeEnd /\ t > args.endTime
                 THEN [acc EXCEPT !.stopMatches = << >>, !.rejectFlag = TRUE]
             ELSE IF /\ args.widenBegin \/ t >= args.startTime
                     /\ args.widenEnd \/ t <= args.endTime
                 THEN StopMatchLoop(args, gtfsStopsLookup, resultTree, i + 1,
                                    [acc EXCEPT !.stopMatches = Append(@, i)])
             ELSE StopMatchLoop(args, gtfsStopsLookup, resultTree, i + 1, acc)

\* a row of public.bus_route_link.csv; stop is None for a row without a stop
RouteLinkRow(route, sequence, link, stop) ==
    [route |-> route, sequence |-> sequence, link |-> link, stop |-> stop]

\* the smaller and the larger of two times
Min(a, b) == IF a < b THEN a ELSE b
Max(a, b) == IF a > b THEN a ELSE b

RECURSIVE OutputLoop(_, _, _, _, _, _, _, _)
\* dumpBusRouteLinks 720-750: the rows of one trip; o holds rows, ret,
\* outSeqCtr, minTime, maxTime, foundValidStop and stopMatchIndex
OutputLoop(args, gtfsStopsLookup, tripID, g, resultTree, stopMatches, i, o) ==
    IF i > Len(resultTree) THEN o
    ELSE LET treeEntry == resultTree[i]
             lead == SubSeq(treeEntry.routeInfo, 1, Len(treeEntry.routeInfo) - 1)
             leadRows == [j \in 1..Len(lead) |->
                            RouteLinkRow(tripID, o.outSeqCtr + j - 1,
                                         g.linkMap[lead[j]].id, None)]
             outSeqCtr == o.outSeqCtr + Len(lead)
             linkID == g.linkMap[treeEntry.pointOnLink.link].id
             isStop == /\ o.stopMatchIndex < Len(stopMatches)
                       /\ i = stopMatches[o.stopMatchIndex + 1]
             gtfsStopTime == gtfsStopsLookup[treeEntry.shapeSeq]
             stopID == gtfsStopTime.stopID
             taken == stopID \in DOMAIN o.ret /\ o.ret[stopID].link # linkID
             p == IF isStop
                    THEN [o EXCEPT
                            !.rows = @ \o leadRows
                                       \o <<RouteLinkRow(tripID, outSeqCtr, linkID, Some(stopID))>>,
                            !.foundValidStop = TRUE,
                            !.ret = IF taken THEN @
                                    ELSE DictSet(@, stopID,
                                                 [link |-> linkID,
                                                  dist |-> treeEntry.pointOnLink.dist]),
                            !.minTime = Min(gtfsStopTime.arrivalTime, @),
                            !.maxTime = Max(gtfsStopTime.arrivalTime, @),
                            !.stopMatchIndex = @ + 1]
                  ELSE IF o.foundValidStop \/ ~args.excludeUpstream
                    THEN [o EXCEPT !.rows = @ \o leadRows
                                       \o <<RouteLinkRow(tripID, outSeqCtr, linkID, None)>>]
                  ELSE [o EXCEPT !.rows = @ \o leadRows]
         IN  OutputLoop(args, gtfsStopsLookup, tripID, g, resultTree, stopMatches,
                        i + 1, [p EXCEPT !.outSeqCtr = outSeqCtr + 1])

\* dumpBusRouteLinks 693-750: the output of one refined trip, into out
OutputTrip(args, gtfsStopsLookup, tripID, g, resultTree, out) ==
    LET m == StopMatchLoop(args, gtfsStopsLookup, resultTree, 1,
                           [stopMatches |-> << >>, rejectFlag |-> FALSE, raised |-> FALSE])
        o == OutputLoop(args, gtfsStopsLookup, tripID, g, resultTree, m.stopMatches, 1,
                        [rows |-> out.rows, ret |-> out.ret,
                         outSeqCtr |-> out.longestStart[1],
                         minTime |-> out.warmupStartTime,
                         maxTime |-> out.cooldownEndTime,
                         foundValidStop |-> FALSE, stopMatchIndex |-> 0])
    IN  IF m.raised THEN [out |-> out, raised |-> TRUE]
        ELSE IF m.rejectFlag THEN [out |-> out, raised |-> FALSE]
        ELSE [out |-> [out EXCEPT !.rows = o.rows, !.ret = o.ret,
                                  !.warmupStartTime = Min(o.minTime, @),
                                  !.cooldownEndTime = Max(o.maxTime, @)],
              raised |-> FALSE]

\* the stop time of the given stop sequence
StopTimeOfSeq(stopTimes, q) ==
    stopTimes[CHOOSE i \in 1..Len(stopTimes) : stopTimes[i].stopSeq = q]

RECURSIVE RefineTrips(_, _, _, _, _, _)
\* dumpBusRouteLinks 668-750: the trips in order.  The output of a trip
\* looks its stops up in gtfsStopsLookup, which still is the lookup of the
\* last trip of line 581: KeyError for a stop sequence that trip lacks.
RefineTrips(st, args, allTrips, subsets, lookups, trips) ==
    IF trips = << >> \/ st.raised THEN st
    ELSE LET t == Head(trips)
             resultTree == refineTrip(st.trees[t], subsets[t], lookups[t])
             gtfsStopsLookup ==
                [q \in DOMAIN lookups[st.last] |->
                    StopTimeOfSeq(allTrips[st.last].stopTimes, q)]
             r == OutputTrip(args, gtfsStopsLookup, t, subsets[t], resultTree, st.out)
         IN  RefineTrips([st EXCEPT !.trees[t] = resultTree, !.raised = r.raised,
                                    !.out = r.out],
                         args, allTrips, subsets, lookups, Tail(trips))

\* dumpBusRouteLinks 666-811
RefineAndOutput ==
    /\ runPc = "refine"
    /\ LET st == RefineTrips([trees |-> allResultTrees, raised |-> FALSE,
                              last |-> allUsedTripIDs[Len(allUsedTripIDs)],
                              out |-> runOut],
                             runArgs, gtfsTrips, allSubsets, allStopsLookups,
                             allUsedTripIDs)
       IN  /\ allResultTrees' = st.trees
           /\ runOut' = st.out
           /\ runPc' = IF st.raised THEN "raised" ELSE "done"
    /\ UNCHANGED <<gtfsTrips, allSubsets, allUsedTripIDs, allStopsLookups,
                   matchedTrees, runArgs, notRun>>

\* dumpBusStops 813-830: a row for every stop of stopLinkMap
dumpBusStops(stopLinkMap) ==
    LET ids == SortedSeq(DOMAIN stopLinkMap)
    IN  [i \in 1..Len(ids) |->
            [id |-> ids[i], link |-> stopLinkMap[ids[i]].link,
             location |-> stopLinkMap[ids[i]].dist]]

\* main 955-977: the trips with a stop time at a stop that is left in
\* gtfsStops, each with the arrival time of the first such stop time
FrequencyRows(allTrips, stopLinkMap, newStartTime) ==
    LET valid(t) == { i \in 1..Len(allTrips[t].stopTimes) :
                        allTrips[t].stopTimes[i].stopID \in DOMAIN stopLinkMap }
        first(t) == allTrips[t].stopTimes[CHOOSE i \in valid(t) : \A j \in valid(t) : i <= j]
        day(stopTime) == IF stopTime < newStartTime
                           THEN stopTime + 86400 * ((newStartTime - stopTime) \div 86400 + 1)
                           ELSE stopTime
        tripIDs == SortedSeq({ t \in DOMAIN allTrips : valid(t) # {} })
    IN  [i \in 1..Len(tripIDs) |->
            [route |-> tripIDs[i],
             offsettime |-> day(first(tripIDs[i]).arrivalTime) - newStartTime]]

\* main 932-985: public.bus_stop.csv, public.bus_frequency.csv and
\* public.bus_route.csv are written from what dumpBusRouteLinks returned
DumpFiles ==
    /\ runPc = "done"
    /\ LET frequency == FrequencyRows(gtfsTrips, runOut.ret, runOut.warmupStartTime)
       IN  runOut' = [runOut EXCEPT
                        !.busStop = dumpBusStops(runOut.ret),
                        !.frequency = frequency,
                        !.busRoute = [i \in 1..Len(frequency) |-> frequency[i].route]]
    /\ runPc' = "exit"
    /\ UNCHANGED <<gtfsTrips, allResultTrees, allSubsets, allUsedTripIDs,
                   allStopsLookups, matchedTrees, runArgs, notRun>>

RunNext ==
    \/ MatchTrip
    \/ Reconcile
    \/ RefineAndOutput
    \/ DumpFiles

SpecRun == RunInit /\ [][RunNext]_vars

(***************************************************************************)
(* readAVLCSV (avl_distances.py 54-141).  A row of the CSV file is kept as *)
(* its route_id, trip_headsign, trip_id and timestamp.                     *)
(***************************************************************************)
\* the trip ids of the GTFS set
avlGtfsTrips == {"t1", "t2"}

AvlRow(route, headsign, trip, time) ==
    [route_id |-> route, trip_headsign |-> headsign, trip_id |-> trip,
     timestamp |-> time]

\* the rows a file is made of; t9 is a trip the GTFS set lacks
AvlRows ==
    { AvlRow("A", "A", trip, time) : trip \in avlGtfsTrips, time \in {1, 2} }
    \cup { AvlRow("A", "B", "t1", 1), AvlRow("B", "A", "t1", 1),
           AvlRow("A", "A", "t9", 1) }

\* the -r and -h arguments and the columns of the file ("lon": the expected
\* header; "lon+lng": with a lng column as well; "bad": a column is missing)
AvlCalls ==
    { [routeID |-> None, routeHeadsign |-> None, columns |-> "lon+lng"],
      [routeID |-> Some("A"), routeHeadsign |-> Some("B"), columns |-> "lon+lng"],
      [routeID |-> Some("A"), routeHeadsign |-> None, columns |-> "lon+lng"],
      [routeID |-> None, routeHeadsign |-> None, columns |-> "lon"],
      [routeID |-> None, routeHeadsign |-> None, columns |-> "bad"] }

\* readAVLCSV 65-80
AvlInit ==
    /\ WalkOff
    /\ FindOff
    /\ SubsetOff
    /\ RunOff
    /\ ContigOff
    /\ \E call \in AvlCalls, n \in 1..MaxAvlRows : \E rows \in [1..n -> AvlRows] :
          avlFile = [call |-> call, rows |-> rows]
    /\ avl = [ret |-> << >>, prevTime |-> None, prevRouteID |-> None,
              prevTripID |-> None, prevRouteHeadsign |-> None,
              duplicateMsgFlag |-> FALSE, duplicateTimes |-> {},
              previousTripIDs |-> {}, ctr |-> 0, line |-> 0, stored |-> << >>]
    /\ avlPc = "read"

\* readAVLCSV 90: the row passes the -r and -h arguments
PassesFilter(call, fileLine) ==
    /\ call.routeID = None \/ Some(fileLine.route_id) = call.routeID
    /\ call.routeHeadsign = None \/ Some(fileLine.trip_headsign) = call.routeHeadsign

\* readAVLCSV 91-92: the row is of another route or headsign than remembered
Ambiguous(a, fileLine) ==
    \/ a.prevRouteID # None /\ a.prevRouteID # Some(fileLine.route_id)
    \/ a.prevRouteHeadsign # None /\ a.prevRouteHeadsign # Some(fileLine.trip_headsign)

\* readAVLCSV 98-99: the pair of the row is remembered
RememberPair(a, fileLine) ==
    [a EXCEPT !.prevRouteHeadsign = Some(fileLine.route_id),
              !.prevRouteID = Some(fileLine.trip_headsign)]

\* readAVLCSV 98-109: the remembered pair, and the start of a new trip
AfterTripStart(a, fileLine) ==
    LET b == RememberPair(a, fileLine)
    IN  IF b.prevTripID = None \/ Some(fileLine.trip_id) # b.prevTripID
        THEN [b EXCEPT !.previousTripIDs = @ \cup {fileLine.trip_id},
                       !.prevTripID = Some(fileLine.trip_id),
                       !.ctr = 0, !.prevTime = None]
        ELSE b

\* a reader that lets a trip be resumed
ResumesNever(a, fileLine) == FALSE

\* readAVLCSV 98-102: the row resumes a trip that was left
Resumes(a, fileLine) ==
    /\ a.prevTripID = None \/ Some(fileLine.trip_id) # a.prevTripID
    /\ fileLine.trip_id \in a.previousTripIDs

\* readAVLCSV 128-138: a stop and a stop time are made for the row
StoreStopTime(a, fileLine) ==
    LET stopTime == [stopSeq |-> a.ctr, stopID |-> a.ctr,
                     arrivalTime |-> fileLine.timestamp, line |-> a.line]
        old == IF fileLine.trip_id \in DOMAIN a.ret THEN a.ret[fileLine.trip_id]
               ELSE << >>
    IN  [a EXCEPT !.ctr = @ + 1,
                  !.ret = DictSet(@, fileLine.trip_id, Append(old, stopTime)),
                  !.stored = Append(@, a.line)]

\* readAVLCSV 81-138: the loop body for one row; the result is the locals
\* after it and where the function stands
ReadRow(call, a, fileLine) ==
    LET n == [a EXCEPT !.line = @ + 1]
        p == RememberPair(n, fileLine)
        t == AfterTripStart(n, fileLine)
        late == t.prevTime # None /\ fileLine.timestamp < t.prevTime[1]
        warned == [t EXCEPT !.duplicateTimes = @ \cup {fileLine.trip_id}]
        timed == [t EXCEPT !.prevTime = Some(fileLine.timestamp)]
    IN  IF a.line = 0 /\ call.columns = "bad"
            THEN <<[a EXCEPT !.ret = None], "returned">>
        ELSE IF ~PassesFilter(call, fileLine) THEN <<n, "read">>
        ELSE IF Ambiguous(a, fileLine)
            THEN <<[n EXCEPT !.duplicateMsgFlag = TRUE], "read">>
        ELSE IF Resumes(a, fileLine) THEN <<p, "read">>
        ELSE IF late THEN <<warned, "read">>
        ELSE IF fileLine.trip_id \notin avlGtfsTrips
            THEN <<[timed EXCEPT !.duplicateTimes = @ \cup {fileLine.trip_id}], "read">>
        ELSE IF call.columns = "lon" THEN <<timed, "raised">>
        ELSE <<StoreStopTime(timed, fileLine), "read">>

\* one row of the file is read
ReadAVLRow ==
    /\ avlPc = "read"
    /\ avl.line < Len(avlFile.rows)
    /\ LET r == ReadRow(avlFile.call, avl, avlFile.rows[avl.line + 1])
       IN  avl' = r[1] /\ avlPc' = r[2]
    /\ UNCHANGED <<avlFile, notAvl>>

\* readAVLCSV 141: the file is exhausted
ReadAVLReturn ==
    /\ avlPc = "read"
    /\ avl.line = Len(avlFile.rows)
    /\ avlPc' = "returned"
    /\ UNCHANGED <<avlFile, avl, notAvl>>

AvlNext == ReadAVLRow \/ ReadAVLReturn

SpecAvl == AvlInit /\ [][AvlNext]_vars

(***************************************************************************)
(* The calls of treeContiguous on bounded lists of PathEnd.                 *)
(***************************************************************************)
\* the steps by which totalDist grows from one PathEnd to the next
DistSteps == {0, 10, 20}

\* the lists of PathEnd of n elements: totalDist starts at 0 and never falls
RECURSIVE TreeNodeLists(_)
TreeNodeLists(n) ==
    IF n = 0 THEN { << >> }
    ELSE { Append(l, [restart |-> r, shapeSeq |-> n,
                      totalDist |-> IF n = 1 THEN 0 ELSE l[n - 1].totalDist + d]) :
             l \in TreeNodeLists(n - 1), r \in BOOLEAN,
             d \in IF n = 1 THEN {0} ELSE DistSteps }

\* the stop times of a trip (their arrival times), or none given
ContigStopTimes == { None, Some(<< >>), Some(<<1>>), Some(<<2>>), Some(<<3>>), Some(<<4>>), Some(<<1, 5>>), Some(<<5, 3>>) }

\* the valid intervals
ContigIntervals == { <<None, None>>, <<Some(2), Some(4)>>, <<None, Some(4)>>, <<Some(2), None>> }

ContigInit ==
    /\ WalkOff
    /\ FindOff
    /\ SubsetOff
    /\ RunOff
    /\ AvlOff
    /\ \E n \in 0..MaxTreeNodes : \E nodes \in TreeNodeLists(n) :
       \E st \in ContigStopTimes, iv \in ContigIntervals :
          contigArgs = [treeNodes |-> nodes, gtfsStopTimes |-> st,
                        startTime |-> iv[1], endTime |-> iv[2]]
    /\ contigRet = None

TreeContiguousCall ==
    /\ contigArgs # << >>
    /\ contigRet = None
    /\ contigRet' = Some(treeContiguous(contigArgs.treeNodes, contigArgs.gtfsStopTimes,
                                   contigArgs.startTime, contigArgs.endTime))
    /\ UNCHANGED <<contigArgs, notContig>>

ContigNext == TreeContiguousCall

SpecContig == ContigInit /\ [][ContigNext]_vars








(***************************************************************************)
(* Properties of walkPath.                                                 *)
(***************************************************************************)
WalkReturned == walkPc = "idle" /\ walkCalls > 0
WalkOrig == pointOnLinkOrig[1]
WalkDest == pointOnLinkDest[1]
WalkLink(uid) == walkGraph.linkMap[uid]

\* a sequence of links of the walker's graph in which each link starts at the
\* node where the one before it ends
IsChain(links) ==
    \A i \in 1..(Len(links) - 1) :
        WalkLink(links[i + 1]).origNode = WalkLink(links[i]).destNode

WalkStraightSq ==
    getNormSq(WalkDest.pointX, WalkDest.pointY, WalkOrig.pointX, WalkOrig.pointY)

WalkBeyondRadius ==
    limitRadius < Inf /\ WalkStraightSq > limitRadius * limitRadius

\* the distance and cost of a walk that stays on one link
SameLinkDistance == WalkDest.dist - WalkOrig.dist
SameLinkCost == scoreFunction(WalkOrig, SameLinkDistance, Some(WalkDest))
SameLinkResult ==
    [path |-> Some(<< >>), distance |-> SameLinkDistance, cost |-> SameLinkCost]

\* C3 as stated: for every src and dst on the same link walkPath returns an
\* empty link list (not None), the distance dst.d - src.d and the cost of
\* the score function at (src, that distance, dst).
C3_SameLinkAlwaysReturned ==
    (WalkReturned /\ WalkOrig.link = WalkDest.link) => walkRet = SameLinkResult

\* C3 amended: for src and dst on the same link walkPath returns the empty
\* list with distance dst.d - src.d and the destination-aware cost exactly
\* when the points are within limitRadius, limitSteps > 0, dst.d - src.d is
\* below limitDistance and the cost does not exceed the engine's threshold;
\* in every other case it returns no path (None, 0, 0).
C3_SameLinkWithinLimits ==
    (WalkReturned /\ WalkOrig.link = WalkDest.link) =>
        IF /\ ~WalkBeyondRadius
           /\ limitSteps > 0
           /\ SameLinkDistance < limitDistance
           /\ ~(SameLinkCost > worstCost)
        THEN walkRet = SameLinkResult
        ELSE walkRet = NoPath

C3_Witness ==
    /\ WalkReturned /\ WalkOrig.link = WalkDest.link
    /\ WalkOrig.dist # WalkDest.dist
    /\ walkRet = SameLinkResult
    /\ walkRet.distance = 50

\* C4: when src and dst are farther apart than limitRadius in straight line
\* the call has returned no path at once: no frame was enqueued, the back
\* cache is as it was before the call, and no winner is kept or returned.
C4_TooFarReturnsAtOnce ==
    (walkCalls > 0 /\ WalkBeyondRadius) =>
        /\ walkPc = "idle"
        /\ walkRet = NoPath
        /\ enqueued = << >>
        /\ processingQueue = << >>
        /\ backCache = cacheAtCall
        /\ winner = None

C4_Witness ==
    /\ walkCalls = 2
    /\ WalkBeyondRadius
    /\ backCache # << >>
    /\ walkRet = NoPath

\* C5: with allowUTurns false no returned path, src.link put in front of it,
\* holds a link followed at once by its reverse; a walk from (150,0) to
\* (50,0) is found only from L2r to L1r, and it is L2r, L1r.
C5_NoUTurns ==
    (WalkReturned /\ ~allowUTurns /\ walkRet.path # None) =>
        LET full == <<WalkOrig.link>> \o walkRet.path[1]
        IN  /\ \A i \in 1..(Len(full) - 1) :
                  ~( /\ WalkLink(full[i + 1]).destNode = WalkLink(full[i]).origNode
                     /\ WalkLink(full[i + 1]).origNode = WalkLink(full[i]).destNode )
            /\ ( /\ walkGraph = lineNetwork
                 /\ WalkOrig.pointX = 150 /\ WalkOrig.pointY = 0
                 /\ WalkDest.pointX = 50 /\ WalkDest.pointY = 0 )
               => full = <<Lk.L2r, Lk.L1r>>

C5_Witness ==
    /\ WalkReturned /\ ~allowUTurns
    /\ walkGraph = lineNetwork
    /\ WalkOrig.pointX = 150 /\ WalkDest.pointX = 50
    /\ walkRet.path = Some(<<Lk.L1r>>)
    /\ WalkOrig.link = Lk.L2r

(***************************************************************************)
(* Properties of findPointsOnLinks.                                        *)
(***************************************************************************)
FindReturned == findRet # None
FindA == findArgs[1]
FindList == findRet[1]
FindLinks == DOMAIN findGraph.linkMap
FindCand(l) == Projection(findGraph, l, FindA.pointX, FindA.pointY)

\* the squared distance from the observation to a returned point
FindObsDistSq(p) == getNormSq(FindA.pointX, FindA.pointY, p.pointX, p.pointY)

\* the links whose candidate is within R and accepted
FindAccepted ==
    { l \in FindLinks :
        /\ FindCand(l).distSq <= FindA.radius * FindA.radius
        /\ \/ FindCand(l).distSq <= FindA.primaryRadius * FindA.primaryRadius
           \/ \E i \in 1..Len(FindA.prevPoints) :
                 getNormSq(FindCand(l).point.pointX, FindCand(l).point.pointY,
                           FindA.prevPoints[i].pointX, FindA.prevPoints[i].pointY)
                   < FindA.secondaryRadius * FindA.secondaryRadius }

\* l is at its head a duplicate of the tail of an accepted upstream link
FindJunctionDuplicate(l) ==
    /\ FindCand(l).point.nonPerpPenalty
    /\ FindCand(l).point.dist = 0
    /\ \E u \in FindAccepted :
          /\ FindCand(u).point.nonPerpPenalty
          /\ FindCand(u).point.dist = findGraph.linkMap[u].distance
          /\ FindCand(u).point.dist # 0
          /\ findGraph.linkMap[u].destNode = findGraph.linkMap[l].origNode
          /\ FindCand(u).point.refDist = FindCand(l).point.refDist

FindKept == { l \in FindAccepted : ~FindJunctionDuplicate(l) }

\* C6: the returned list holds candidates that are within R, accepted and
\* not junction duplicates, each once; it is sorted by ascending refDist, it
\* holds min(kMax, number of such candidates) of them, and every such
\* candidate left out is no nearer than any one returned.
C6_AcceptedSortedTruncated ==
    FindReturned =>
        /\ \A i \in 1..Len(FindList) :
              /\ FindList[i].link \in FindKept
              /\ FindList[i] = FindCand(FindList[i].link).point
              /\ FindList[i].refDist * FindList[i].refDist = FindObsDistSq(FindList[i])
              /\ FindObsDistSq(FindList[i]) <= FindA.radius * FindA.radius
        /\ \A i, j \in 1..Len(FindList) : i # j => FindList[i].link # FindList[j].link
        /\ \A i \in 1..(Len(FindList) - 1) : FindList[i].refDist <= FindList[i + 1].refDist
        /\ Len(FindList) <= FindA.limitClosestPoints
        /\ Len(FindList) = IF Cardinality(FindKept) < FindA.limitClosestPoints
                           THEN Cardinality(FindKept)
                           ELSE FindA.limitClosestPoints
        /\ \A l \in FindKept :
              (\A i \in 1..Len(FindList) : FindList[i].link # l) =>
                  \A i \in 1..Len(FindList) :
                      FindList[i].refDist <= FindCand(l).point.refDist

\* a call in which the truncation, the secondary radius and the junction
\* filter all decide something
C6_Witness ==
    /\ FindReturned
    /\ Len(FindList) = 2
    /\ Cardinality(FindKept) > 2
    /\ FindKept # FindAccepted
    /\ \E l \in FindKept :
          FindCand(l).distSq > FindA.primaryRadius * FindA.primaryRadius

\* C7: no returned list holds both a candidate at the tail of a link and a
\* candidate at the head of a link leaving that link's destination node at
\* the same distance from the observation; an observation at the node B of
\* L1 A->B and L2 B->C with primary radius 5 yields one candidate, the tail
\* of L1.
C7_OneCandidatePerJunction ==
    FindReturned =>
        /\ \A i, j \in 1..Len(FindList) :
              ~( /\ i # j
                 /\ FindList[i].dist = findGraph.linkMap[FindList[i].link].distance
                 /\ FindList[j].dist = 0
                 /\ findGraph.linkMap[FindList[j].link].origNode
                      = findGraph.linkMap[FindList[i].link].destNode
                 /\ FindList[i].refDist = FindList[j].refDist )
        /\ ( /\ findGraph = twoLinkNetwork
             /\ FindA.pointX = 100 /\ FindA.pointY = 0
             /\ FindA.primaryRadius = 5
             /\ FindA.limitClosestPoints = LIMIT_CLOSEST_POINTS )
           => /\ Len(FindList) = 1
              /\ FindList[1].link = Lk.L1
              /\ FindList[1].dist = 100

(***************************************************************************)
(* Properties of buildSubset and embellishSubset.                          *)
(***************************************************************************)
RECURSIVE RouteLinks(_)
\* the routeInfo lists of a PathEnd list, one after the other
RouteLinks(nodes) ==
    IF nodes = << >> THEN << >> ELSE Head(nodes).routeInfo \o RouteLinks(Tail(nodes))

\* the ids of the links of the list buildSubset returned
OutLinkIds == [i \in 1..Len(outLinkList) |-> subset.linkMap[outLinkList[i]].id]

\* C9: the ids of the link list buildSubset returns are, in order, the first
\* PathEnd's link followed by every routeInfo link of the PathEnd list.
C9_SubsetReproducesPath ==
    subsetPc \in {"built", "embellished"} =>
        OutLinkIds = <<treeNodes[1].link>> \o RouteLinks(treeNodes)

\* the links of the path inside the subset
Backbone == { outLinkList[i] : i \in 1..Len(outLinkList) }

RECURSIVE ReachableFrom(_, _)
\* the node objects that the links of the subset lead to from the nodes in S
ReachableFrom(S, n) ==
    IF n = 0 THEN S
    ELSE ReachableFrom(
            S \cup { subset.linkMap[u].destNode :
                       u \in { x \in DOMAIN subset.linkMap :
                                 subset.linkMap[x].origNode \in S } },
            n - 1)

\* link u of the subset lies on a directed cycle
OnCycle(u) ==
    subset.linkMap[u].origNode
        \in ReachableFrom({subset.linkMap[u].destNode}, Len(subset.nodes))

\* C10: after buildSubset and embellishSubset every node object has at most
\* one outgoing link of the path, and no link of the path lies on a directed
\* cycle of the subset.
C10_BackboneStaysOpen ==
    subsetPc = "embellished" =>
        /\ \A n \in 1..Len(subset.nodes) :
              Cardinality({ u \in Backbone : subset.linkMap[u].origNode = n }) <= 1
        /\ \A u \in Backbone : ~OnCycle(u)

(***************************************************************************)
(* Properties of dumpBusRouteLinks.                                        *)
(***************************************************************************)
\* the reconciliation pass is over, by its end or by an exception
RunReconciled == runPc \in {"refine", "raised", "done"}

\* the PathEnds of trip t for stop s in the given trees, as indices
RunEntries(trees, t, s) ==
    { i \in 1..Len(trees[t]) :
        /\ trees[t][i].shapeSeq # -1
        /\ allStopsLookups[t][trees[t][i].shapeSeq] = s }

\* the network link that PathEnd i of trip t is assigned to
RunLinkId(trees, t, i) == allSubsets[t].linkMap[trees[t][i].pointOnLink.link].id

\* the network links that the subnet of trip t contains
RunSubnetIds(t) == { allSubsets[t].linkMap[u].id : u \in DOMAIN allSubsets[t].linkMap }

\* the trips that visit stop s
RunVisitors(s) == { t \in DOMAIN matchedTrees : RunEntries(matchedTrees, t, s) # {} }

\* the key of network link l for stop s: in how many of the visiting trips'
\* subnets it lies, how many PathEnds were matched to it, and its id
RunKey(s, l) ==
    <<Cardinality({ t \in RunVisitors(s) : l \in RunSubnetIds(t) }),
      Cardinality({ e \in UNION { { <<t, i>> : i \in RunEntries(matchedTrees, t, s) } :
                                  t \in RunVisitors(s) } :
                      RunLinkId(matchedTrees, e[1], e[2]) = l }),
      l>>

\* the network links the trips matched stop s to
RunVoted(s) ==
    UNION { { RunLinkId(matchedTrees, t, i) : i \in RunEntries(matchedTrees, t, s) } :
            t \in RunVisitors(s) }

\* the link selected for stop s: the one with the greatest key
RunSelected(s) ==
    CHOOSE l \in RunVoted(s) :
        \A m \in RunVoted(s) \ {l} : TupleLess(RunKey(s, m), RunKey(s, l))

\* the swap scenario: trip 1 runs along L1 and matched stop 1 to L1, trip 2
\* runs along L1, X, L2 and matched stop 1 to L2
RunSwapScenario ==
    /\ gtfsTrips[1] = [treeNodes |-> <<RunPathEnd(RunLk.L1, << >>, 0),
                                       RunPathEnd(RunLk.L1, << >>, 50)>>,
                       stopTimes |-> <<StopTimesEntry(1, 1, 3)>>]
    /\ gtfsTrips[2] = [treeNodes |-> <<RunPathEnd(RunLk.L1, << >>, 0),
                                       RunPathEnd(RunLk.L2, <<RunLk.X, RunLk.L2>>, 150)>>,
                       stopTimes |-> <<StopTimesEntry(1, 1, 3)>>]
    /\ RunLinkId(matchedTrees, 1, 2) = RunLk.L1
    /\ RunLinkId(matchedTrees, 2, 2) = RunLk.L2
    /\ RunLk.L1 \in RunSubnetIds(2)
    /\ RunLk.L2 \notin RunSubnetIds(1)

\* C1: once the reconciliation pass is over, for every stop that several
\* trips visit, every trip whose subnet contains the selected link has the
\* stop assigned to that link; in the swap scenario both trips have stop 1
\* assigned to L1.
C1_TripsAgreeOnSelectedLink ==
    RunReconciled =>
        /\ \A s \in 1..Len(gtfsStops) :
              Cardinality(RunVisitors(s)) >= 2 =>
                  \A t \in RunVisitors(s) :
                      RunSelected(s) \in RunSubnetIds(t) =>
                          \A i \in RunEntries(allResultTrees, t, s) :
                              RunLinkId(allResultTrees, t, i) = RunSelected(s)
        /\ RunSwapScenario =>
              \A t \in {1, 2} : \A i \in RunEntries(allResultTrees, t, 1) :
                  RunLinkId(allResultTrees, t, i) = RunLk.L1

GraphUids(g) == { g.linkMap[u].uid : u \in DOMAIN g.linkMap }

\* C11: the links added to the graphs of one run all have different uids:
\* inside each subset one link per uid, and no uid is used in the subsets of
\* two different trips.
C11_UidsUniqueInProcess ==
    /\ \A t \in DOMAIN allSubsets :
          /\ Cardinality(GraphUids(allSubsets[t])) = Cardinality(DOMAIN allSubsets[t].linkMap)
          /\ \A u \in DOMAIN allSubsets[t].linkMap : allSubsets[t].linkMap[u].uid = u
    /\ \A t, r \in DOMAIN allSubsets :
          t # r => GraphUids(allSubsets[t]) \cap GraphUids(allSubsets[r]) = {}

\* C12: the reconciliation stage of dumpBusRouteLinks always runs to its
\* end: no step taken from the start of the reconciliation ends in an
\* exception.
C12_ReconcileNeverRaises == [][runPc = "reconcile" => runPc' # "raised"]_vars

(***************************************************************************)
(* readAVLCSV                                                              *)
(***************************************************************************)
AvlRunning == avlPc \in {"read", "returned"} /\ avl.ret # None

\* the rows of the file for which a stop time was stored
AvlStoredRows == { avlFile.rows[avl.stored[i]] : i \in 1..Len(avl.stored) }

\* C13: all rows readAVLCSV accepts in one invocation carry the same
\* (route_id, trip_headsign) pair, that of the first accepted row.
C13_AcceptedRowsShareOnePair ==
    AvlRunning =>
        \A r1, r2 \in AvlStoredRows :
            r1.route_id = r2.route_id /\ r1.trip_headsign = r2.trip_headsign

\* the stop times stored for a trip
AvlEntries(a, trip) == IF trip \in DOMAIN a.ret THEN a.ret[trip] ELSE << >>

\* the stored stop times of every trip are in input order, with stop
\* sequence 0, 1, 2, ... and non-decreasing arrival times
AvlTripsOrdered ==
    AvlRunning =>
        \A trip \in DOMAIN avl.ret :
            LET e == avl.ret[trip]
            IN  /\ \A i \in 1..Len(e) :
                      /\ e[i].stopSeq = i - 1
                      /\ avlFile.rows[e[i].line].trip_id = trip
                      /\ e[i].arrivalTime = avlFile.rows[e[i].line].timestamp
                /\ \A i \in 1..(Len(e) - 1) :
                      /\ e[i].line < e[i + 1].line
                      /\ e[i].arrivalTime <= e[i + 1].arrivalTime

\* the row about to be read is earlier than the last stored row of its trip
AvlRowIsLate(a, fileLine) ==
    LET e == AvlEntries(a, fileLine.trip_id)
    IN  e # << >> /\ fileLine.timestamp < e[Len(e)].arrivalTime

\* the row about to be read resumes a trip after a row of another trip
\* was stored
AvlRowResumes(a, fileLine) ==
    /\ AvlEntries(a, fileLine.trip_id) # << >>
    /\ avlFile.rows[a.stored[Len(a.stored)]].trip_id # fileLine.trip_id

\* reading a row keeps every stored stop time, and a late or resuming row
\* stores nothing
AvlRowKeepsStored ==
    (avlPc = "read" /\ avl.line < Len(avlFile.rows) /\ avl' # avl /\ avl'.ret # None) =>
        LET fileLine == avlFile.rows[avl.line + 1]
        IN  /\ \A trip \in DOMAIN avl.ret :
                  /\ trip \in DOMAIN avl'.ret
                  /\ SubSeq(avl'.ret[trip], 1, Len(avl.ret[trip])) = avl.ret[trip]
            /\ (AvlRowIsLate(avl, fileLine) \/ AvlRowResumes(avl, fileLine))
                  => avl'.ret = avl.ret

\* C14: per trip, readAVLCSV stores the fabricated stop times in input order
\* with non-decreasing arrival times and stop sequence 0, 1, 2, ...; a row
\* earlier than the last accepted row of its trip, and a row of a trip resumed
\* after another trip started, are skipped and change no stored entry.
C14_StopTimesOrderedAndGapless == [] AvlTripsOrdered /\ [][AvlRowKeepsStored]_vars

\* a file was read in which a trip got two stop times, a late row was
\* skipped and a resuming row was skipped
C14_Witness ==
    /\ avlPc = "returned" /\ avl.ret # None
    /\ \E trip \in DOMAIN avl.ret : Len(avl.ret[trip]) >= 2
    /\ \E k \in 2..Len(avlFile.rows) :
          /\ \A i \in 1..Len(avl.stored) : avl.stored[i] # k
          /\ \E i \in 1..Len(avl.stored) :
                /\ avl.stored[i] < k
                /\ avlFile.rows[avl.stored[i]].trip_id = avlFile.rows[k].trip_id
                /\ avlFile.rows[avl.stored[i]].timestamp > avlFile.rows[k].timestamp
    /\ \E k \in 3..Len(avlFile.rows) :
          /\ \A i \in 1..Len(avl.stored) : avl.stored[i] # k
          /\ \E i, j \in 1..Len(avl.stored) :
                /\ avl.stored[i] < avl.stored[j] /\ avl.stored[j] < k
                /\ avlFile.rows[avl.stored[i]].trip_id = avlFile.rows[k].trip_id
                /\ avlFile.rows[avl.stored[j]].trip_id # avlFile.rows[k].trip_id

(***************************************************************************)
(* treeContiguous                                                          *)
(***************************************************************************)
ContigReturned == contigRet # None /\ contigRet[1].raised = ""

\* the stop times are given, not empty, and none arrives inside the interval
ContigOutsideInterval ==
    /\ contigArgs.gtfsStopTimes # None
    /\ contigArgs.gtfsStopTimes[1] # << >>
    /\ \A i \in 1..Len(contigArgs.gtfsStopTimes[1]) :
          \/ contigArgs.startTime # None /\ contigArgs.gtfsStopTimes[1][i] < contigArgs.startTime[1]
          \/ contigArgs.endTime # None /\ contigArgs.gtfsStopTimes[1][i] > contigArgs.endTime[1]

\* positions s+1..e of the list are a maximal run without a restart inside
ContigRun(nodes, s, e) ==
    /\ 0 <= s /\ s < e /\ e <= Len(nodes)
    /\ \A i \in (s + 2)..e : ~nodes[i].restart
    /\ s = 0 \/ nodes[s + 1].restart
    /\ e = Len(nodes) \/ nodes[e + 1].restart

ContigRunDist(nodes, s, e) == nodes[e].totalDist - nodes[s + 1].totalDist

\* the run s+1..e travels at least as far as every other run of the list
ContigLongest(nodes, s, e) ==
    \A s2 \in 0..(Len(nodes) - 1), e2 \in 1..Len(nodes) :
        ContigRun(nodes, s2, e2) => ContigRunDist(nodes, s2, e2) <= ContigRunDist(nodes, s, e)

\* what was returned is the slice treeNodes[s:e] of a longest maximal run
ContigSliceReturned ==
    LET nodes == contigArgs.treeNodes
        r == contigRet[1]
    IN  /\ r.nodes # None
        /\ LET s == r.start
               e == r.start + Len(r.nodes[1])
           IN  /\ ContigRun(nodes, s, e)
               /\ r.nodes[1] = SubSeq(nodes, s + 1, e)
               /\ ContigLongest(nodes, s, e)

\* C15: treeContiguous returns the slice treeNodes[s:e] of a maximal
\* restart-free run of largest travelled distance, with s as second result;
\* it returns None when stop times are given, not empty, and none arrives
\* inside [startTime, endTime].
C15_LongestRunReturned ==
    (ContigReturned /\ contigArgs.treeNodes # << >>) =>
        IF ContigOutsideInterval THEN contigRet[1].nodes = None
        ELSE ContigSliceReturned

(***************************************************************************)
(* The files written by transit_gtfs                                       *)
(***************************************************************************)
\* dumpBusRouteLinks has returned
RunReturned == runPc \in {"done", "exit"}

\* every stop of trip t arrives outside the valid interval
RunTripOutside(t) ==
    \A i \in 1..Len(gtfsTrips[t].stopTimes) :
        \/ gtfsTrips[t].stopTimes[i].arrivalTime < runArgs.startTime
        \/ gtfsTrips[t].stopTimes[i].arrivalTime > runArgs.endTime

\* trip t is excluded by -x: a stop of it arrives outside the valid interval
RunTripExcluded(t) ==
    \E i \in 1..Len(gtfsTrips[t].stopTimes) :
        \/ runArgs.excludeBegin /\ gtfsTrips[t].stopTimes[i].arrivalTime < runArgs.startTime
        \/ runArgs.excludeEnd /\ gtfsTrips[t].stopTimes[i].arrivalTime > runArgs.endTime

\* the rows of public.bus_route_link.csv written for trip t
RunRowsOf(t) == { i \in 1..Len(runOut.rows) : runOut.rows[i].route = t }

\* trip t has no row in public.bus_route_link.csv
RunNoLinkRows(t) == RunRowsOf(t) = {}

\* trip t has no row in public.bus_frequency.csv nor in public.bus_route.csv
RunNoTripRows(t) ==
    /\ \A i \in 1..Len(runOut.frequency) : runOut.frequency[i].route # t
    /\ \A i \in 1..Len(runOut.busRoute) : runOut.busRoute[i] # t

\* C16: a trip that was skipped (all its stops outside the valid interval) or
\* rejected (-x and a stop outside the interval) has no row in
\* public.bus_route_link.csv, and later none in public.bus_frequency.csv
\* and public.bus_route.csv.
C16_NoOutputForRemovedTrips ==
    \A t \in DOMAIN gtfsTrips :
        (RunTripOutside(t) \/ RunTripExcluded(t)) =>
            /\ RunReturned => RunNoLinkRows(t)
            /\ runPc = "exit" => RunNoTripRows(t)

\* C17: with -u no row of public.bus_route_link.csv is written for a trip
\* before the row of the trip's first valid stop.
C17_NothingUpstreamOfFirstStop ==
    (RunReturned /\ runArgs.excludeUpstream) =>
        \A t \in DOMAIN gtfsTrips : \A i \in RunRowsOf(t) :
            runOut.rows[i].stop = None =>
                \E j \in RunRowsOf(t) : j < i /\ runOut.rows[j].stop # None

\* C18: at most one stop is mapped to a link: no two stop rows of a trip in
\* public.bus_route_link.csv and no two rows of public.bus_stop.csv name
\* the same link.
C18_OneStopPerLink ==
    /\ RunReturned =>
          \A t \in DOMAIN gtfsTrips : \A i, j \in RunRowsOf(t) :
              (i # j /\ runOut.rows[i].stop # None /\ runOut.rows[j].stop # None)
                  => runOut.rows[i].link # runOut.rows[j].link
    /\ runPc = "exit" =>
          \A i, j \in 1..Len(runOut.busStop) :
              i # j => runOut.busStop[i].link # runOut.busStop[j].link

\* ---- walkPath against the shortest path (graph.py 367-490) ----

\* the call started on an empty back-cache, no cost exceeds the previous ones,
\* and the two points are within limitRadius
WalkPlainCall ==
    /\ WalkReturned
    /\ cacheAtCall = << >>
    /\ worstCost = Inf
    /\ ~TooFar(pointOnLinkOrig[1], pointOnLinkDest[1])

RECURSIVE PathsFrom(_, _, _, _, _)
\* the link sequences that extend path to dstLink by at most steps links,
\* repeat no link and make a U-turn only where U-turns are allowed
PathsFrom(g, uturns, path, dstLink, steps) ==
    LET last == path[Len(path)]
        out == OutgoingLinks(g, g.linkMap[last].destNode)
        next == { out[i] : i \in { j \in 1..Len(out) :
                    /\ \A n \in 1..Len(path) : path[n] # out[j]
                    /\ uturns \/ ~isComplementary(g, last, out[j]) } }
    IN  IF last = dstLink THEN {path}
        ELSE IF steps = 0 THEN {}
        ELSE UNION { PathsFrom(g, uturns, Append(path, l), dstLink, steps - 1) :
                        l \in next }

\* the paths from the source link to the destination link whose links after
\* the source link number fewer than limitSteps
WalkCandidates ==
    IF limitSteps = 0 THEN {}
    ELSE PathsFrom(walkGraph, allowUTurns, <<pointOnLinkOrig[1].link>>,
                   pointOnLinkDest[1].link, limitSteps - 1)

RECURSIVE InnerLength(_, _, _)
\* the length of the links of path from position i up to the last but one
InnerLength(g, path, i) ==
    IF i >= Len(path) THEN 0
    ELSE g.linkMap[path[i]].distance + InnerLength(g, path, i + 1)

\* the distance travelled from src to dst along path
PathDistance(g, src, dst, path) ==
    IF Len(path) = 1 THEN dst.dist - src.dist
    ELSE (g.linkMap[src.link].distance - src.dist)
             + InnerLength(g, path, 2) + dst.dist

\* the candidate paths shorter than limitDistance
WalkShortEnough ==
    { p \in WalkCandidates :
        PathDistance(walkGraph, pointOnLinkOrig[1], pointOnLinkDest[1], p)
            < limitDistance }

\* no candidate path is shorter than d
WalkIsMinimum(d) ==
    \A p \in WalkShortEnough :
        d <= PathDistance(walkGraph, pointOnLinkOrig[1], pointOnLinkDest[1], p)

\* the frames of the call that reached the destination link with distance d
\* within the step limit, in the order they were enqueued
WalkArrivals(d) ==
    SelectSeq(enqueued, LAMBDA f : /\ f.incomingLink = pointOnLinkDest[1].link
                                   /\ f.stepCount < limitSteps
                                   /\ f.distance = d)

\* C19: a call on an empty back-cache, with no cost exceeding the previous
\* ones and the points within limitRadius, returns no path exactly when no
\* path that repeats no link and stays under the step limit is shorter than
\* limitDistance; otherwise it returns a path of the least distance among
\* those paths, the first of that distance in enqueue order.
C19_ShortestPathReturned ==
    WalkPlainCall =>
        IF WalkShortEnough = {} THEN walkRet.path = None
        ELSE /\ walkRet.path # None
             /\ WalkIsMinimum(walkRet.distance)
             /\ WalkArrivals(walkRet.distance) # << >>
             /\ walkRet.path = Some(RetList(WalkArrivals(walkRet.distance)[1]))

\* ---- walkPath against a processor with an empty back-cache ----

\* _walkPath 436-446 of a processor whose best distance so far is score
FreshDropped(walkPathElem, score) ==
    \/ walkPathElem.stepCount >= limitSteps
    \/ walkPathElem.distance >= score
    \/ exceedsPreviousCosts(walkPathElem.cost)

RECURSIVE FreshSearch(_, _, _, _)
\* walkPath 405-406 with _walkPath: the search loop run to the end from the
\* given queue, back-cache, winner and best distance; gives the winner
FreshSearch(queue, cache, win, score) ==
    IF queue = << >> THEN win
    ELSE LET walkPathElem == Head(queue)
             rest == Tail(queue)
             dest == pointOnLinkDest[1]
         IN  IF FreshDropped(walkPathElem, score)
             THEN FreshSearch(rest, cache, win, score)
             ELSE IF walkPathElem.incomingLink = dest.link
             THEN FreshSearch(rest, CacheWinner(walkGraph, cache, dest.link,
                                           walkPathElem),
                              Some(walkPathElem), walkPathElem.distance)
             ELSE FreshSearch(rest \o NewFrames(walkGraph, pointOnLinkOrig[1],
                                                dest, cache, allowUTurns,
                                                walkPathElem),
                              cache, win, score)

\* walkPath 379-428: what the last call returns on a processor of the same
\* limits whose back-cache is empty
FreshWalk ==
    LET src == pointOnLinkOrig[1]
        dst == pointOnLinkDest[1]
        won == FreshSearch(<<WalkPathNext(walkGraph, src, dst, None, src.link)>>,
                           << >>, None, limitDistance)
    IN  IF TooFar(src, dst) \/ won = None THEN NoPath
        ELSE [path |-> Some(RetList(won[1])),
              distance |-> won[1].distance,
              cost |-> won[1].cost]

\* C20: every walkPath call of a processor returns what the same call returns
\* on a processor whose back-cache is empty: a path or none alike, and the
\* same distance.
C20_CacheNeverChangesResult ==
    WalkReturned =>
        /\ (walkRet.path = None) = (FreshWalk.path = None)
        /\ walkRet.distance = FreshWalk.distance

\* ---- walkPath over the graphs of several trips ----

\* the links of the graph that link l belongs to
LinksOfGraphOf(l) ==
    IF walkGraph # tripSubsets THEN DOMAIN walkGraph.linkMap
    ELSE IF l \in DOMAIN subsetA.linkMap THEN DOMAIN subsetA.linkMap
    ELSE DOMAIN subsetB.linkMap

\* a call is under way or has returned, with src and dst on one graph
WalkOnOneGraph ==
    /\ walkCalls > 0
    /\ WalkDest.link \in LinksOfGraphOf(WalkOrig.link)

\* C21: in any sequence of walkPath calls of one processor, over the graphs
\* of different trips too, a returned path has only links of the graph that
\* src.link and dst.link are in, and no frame of the call is on a link of
\* another graph: no back-cache entry written for one graph is expanded
\* while another is walked.
C21_WalkStaysInItsGraph ==
    WalkOnOneGraph =>
        /\ (WalkReturned /\ walkRet.path # None) =>
              \A i \in 1..Len(walkRet.path[1]) :
                  walkRet.path[1][i] \in LinksOfGraphOf(WalkOrig.link)
        /\ \A i \in 1..Len(enqueued) :
              enqueued[i].incomingLink \in LinksOfGraphOf(WalkOrig.link)

\* ---- the frames of a walkPath call ----

\* the uids of the links on the chain from the initial frame to frame f
ChainUids(f) ==
    LET chain == RetListAll(f)
    IN  [i \in 1..Len(chain) |-> walkGraph.linkMap[chain[i]].uid]

\* sequence s has no element twice
NoRepeat(s) == \A i, j \in 1..Len(s) : i # j => s[i] # s[j]

\* C22: the chain of every frame created during a walkPath call has no link
\* uid twice and the frame's backtrack set is the set of the uids on the
\* chain; a returned path repeats no link and does not contain src.link.
C22_ChainsRepeatNoLink ==
    /\ \A n \in 1..Len(enqueued) :
          LET uids == ChainUids(enqueued[n])
          IN  /\ NoRepeat(uids)
              /\ enqueued[n].backtrackSet = { uids[i] : i \in 1..Len(uids) }
    /\ (WalkReturned /\ walkRet.path # None) =>
          /\ NoRepeat(walkRet.path[1])
          /\ \A i \in 1..Len(walkRet.path[1]) : walkRet.path[1][i] # WalkOrig.link

\* a call has returned a path for which a frame three links from the start
\* stood before a link it had already been over
C22_Witness ==
    /\ WalkReturned /\ walkRet.path # None
    /\ limitSteps = MAX_HOPS
    /\ \E n \in 1..Len(enqueued) :
          LET f == enqueued[n]
              out == OutgoingLinks(walkGraph,
                                   walkGraph.linkMap[f.incomingLink].destNode)
          IN  /\ f.stepCount >= 2
              /\ f.incomingLink # WalkDest.link
              /\ \E i \in 1..Len(out) :
                    walkGraph.linkMap[out[i]].uid \in f.backtrackSet

WalkWithinLimits ==
    (WalkReturned /\ walkRet.path # None) =>
        /\ Len(walkRet.path[1]) < limitSteps
        /\ walkRet.distance < limitDistance

\* a step of the search loop leaves the best distance as it is or lowers it,
\* and a new winner is nearer than the winner before it
WalkBestImproves ==
    walkPc = "search" =>
        /\ backtrackScore' <= backtrackScore
        /\ (winner' # winner /\ winner # None) =>
              winner'[1].distance < winner[1].distance
        /\ winner' # winner => backtrackScore' < backtrackScore

\* C24: a path returned by walkPath has fewer than limitSteps links and a
\* distance below limitDistance, and within one call every new winner has a
\* smaller distance than the winner before: the best distance never grows.
C24_WithinLimitsAndImproving == []WalkWithinLimits /\ [][WalkBestImproves]_vars

\* a call with limits has returned a path after a farther winner was found
\* first
C24_Witness ==
    /\ WalkReturned /\ walkRet.path # None /\ winner # None
    /\ \E i, j \in 1..Len(enqueued) :
          /\ i < j
          /\ enqueued[j] = winner[1]
          /\ enqueued[i].incomingLink = WalkDest.link
          /\ enqueued[i].stepCount < limitSteps
          /\ enqueued[i].distance < limitDistance
          /\ enqueued[i].distance > winner[1].distance

\* ---- walkPath comes to an end ----

\* the frames of a call are on chains shorter than the number of link uids
WalkChainsBounded ==
    \A n \in 1..Len(enqueued) :
        enqueued[n].stepCount < Cardinality(GraphUids(walkGraph))

\* C25: every walkPath call comes to an end on any finite graph, with cycles,
\* two-way pairs of links, links of length 0, U-turns allowed and whatever
\* is in the back-cache: the queue drains and the call returns, every chain
\* being shorter than the number of links whatever limitSteps is.
C25_WalkTerminates ==
    /\ (walkPc = "search") ~> (walkPc = "idle" /\ processingQueue = << >>)
    /\ []WalkChainsBounded

\* a call with U-turns allowed has returned from a walk over the two-way
\* pair of length 0, entered with a back-cache that was not empty
C25_Witness ==
    /\ WalkReturned /\ allowUTurns /\ walkGraph = loopNetwork
    /\ cacheAtCall # << >>
    /\ limitSteps = MAX_HOPS
    /\ \E n \in 1..Len(enqueued) : enqueued[n].incomingLink = Zk.z2
    /\ \E n \in 1..Len(enqueued) :
          /\ enqueued[n].prevStruct # None
          /\ enqueued[n].distance = enqueued[n].prevStruct[1].distance

\* ---- the reconciliation of one stop (transit_gtfs.py 626-664) ----

\* the stops that the trips matched to more than one link
RunContested == { s \in 1..Len(gtfsStops) : Cardinality(RunVoted(s)) >= 2 }

\* the PathEnds of stop s, as <<trip, index>>
RunEntriesOfStop(s) ==
    UNION { { <<t, i>> : i \in RunEntries(matchedTrees, t, s) } :
            t \in RunVisitors(s) }

\* in trees, PathEnd e is on another link than the one it was matched to
RunReassigned(trees, e) ==
    trees[e[1]][e[2]].pointOnLink.link # matchedTrees[e[1]][e[2]].pointOnLink.link

\* trees is what a reconciliation that ended as pc says made of the matched
\* trees by trying nothing but voted links of the trips' subnets, leaving the
\* most popular link where it was
RunOnlyTriedLinks(trees, pc) ==
    \A s \in RunContested :
        /\ pc # "raised"
        /\ \A e \in RunEntriesOfStop(s) :
              /\ RunReassigned(trees, e) =>
                    /\ RunLinkId(trees, e[1], e[2]) \in RunVoted(s)
                    /\ RunLinkId(trees, e[1], e[2]) \in RunSubnetIds(e[1])
              /\ RunLinkId(matchedTrees, e[1], e[2]) = RunSelected(s) =>
                    RunLinkId(trees, e[1], e[2]) = RunSelected(s)

RunAllEntries ==
    UNION { { <<t, i>> : i \in 1..Len(matchedTrees[t]) } : t \in DOMAIN matchedTrees }

\* trees is the matched trees with the PathEnds off the most popular link
\* of their stop reassigned and marked, and nothing else changed
RunMarkedReassignments(trees) ==
    /\ \A s \in RunContested : \A e \in RunEntriesOfStop(s) :
          ( /\ RunLinkId(matchedTrees, e[1], e[2]) # RunSelected(s)
            /\ RunSelected(s) \in RunSubnetIds(e[1]) ) => RunReassigned(trees, e)
    /\ \A e \in RunAllEntries :
          LET new == trees[e[1]][e[2]]
              old == matchedTrees[e[1]][e[2]]
          IN  IF RunReassigned(trees, e)
              THEN /\ new.restart
                   /\ new.pointOnLink.dist = -1
                   /\ e[2] < Len(trees[e[1]]) => trees[e[1]][e[2] + 1].restart
              ELSE /\ new.pointOnLink = old.pointOnLink
                   /\ new.restart # old.restart =>
                         e[2] > 1 /\ RunReassigned(trees, <<e[1], e[2] - 1>>)
    /\ \A s \in (1..Len(gtfsStops)) \ RunContested :
          \A e \in RunEntriesOfStop(s) :
              trees[e[1]][e[2]].pointOnLink = matchedTrees[e[1]][e[2]].pointOnLink

RunRefined(trees, t) == Len(trees[t]) = 0 \/ trees[t][1].shapeSeq # -1

\* the run is over, by its end or by an exception
RunOver == runPc \in {"done", "exit", "raised"}

\* while trips are matched and reconciled no trip has been refined, and the
\* refine stage begins when all trips have been through the match loop
RunBarrier ==
    /\ runPc \in {"match", "reconcile", "refine"} =>
          \A t \in DOMAIN allResultTrees : ~RunRefined(allResultTrees, t)
    /\ runPc = "refine" =>
          /\ runOut.tripIndex = Cardinality(DOMAIN gtfsTrips)
          /\ DOMAIN allResultTrees = Elements(allUsedTripIDs)

\* a step refines a trip only from the refine stage, once, and on the links
\* the reconciliation left
RunRefineStep ==
    \A t \in (DOMAIN allResultTrees') \cap (DOMAIN allResultTrees) :
        allResultTrees'[t] # allResultTrees[t] /\ RunRefined(allResultTrees', t) =>
            /\ runPc = "refine"
            /\ ~RunRefined(allResultTrees, t)
            /\ Len(allResultTrees'[t]) = Len(allResultTrees[t]) - 2
            /\ \A i \in 1..Len(allResultTrees'[t]) :
                  allResultTrees'[t][i].pointOnLink.link
                      = allResultTrees[t][i + 1].pointOnLink.link

\* when the run is over every matched trip has been refined
RunAllRefined ==
    RunOver => \A i \in 1..Len(allUsedTripIDs) :
                  RunRefined(allResultTrees, allUsedTripIDs[i])

\* C28: no trip is refined before constructPath has been run for every used
\* trip and the one reconciliation pass is over; every matched trip is
\* refined, once, with the links its PathEnds have after the reconciliation
\* forced.
C28_ReconcilerIsBarrier ==
    /\ []RunBarrier
    /\ [][RunRefineStep]_vars
    /\ []RunAllRefined

\* ---- the rows of a trip against the trip's own data ----

\* the stop times of trip t that the valid interval lets through
RunOwnStopTimes(t) ==
    { gtfsTrips[t].stopTimes[i] : i \in
        { j \in 1..Len(gtfsTrips[t].stopTimes) :
            /\ runArgs.widenBegin
                  \/ gtfsTrips[t].stopTimes[j].arrivalTime >= runArgs.startTime
            /\ runArgs.widenEnd
                  \/ gtfsTrips[t].stopTimes[j].arrivalTime <= runArgs.endTime } }

\* the start of the contiguous interval of trip t
RunOwnStart(t) ==
    treeContiguous(gtfsTrips[t].treeNodes,
                   Some(ArrivalTimes(gtfsTrips[t].stopTimes)),
                   Some(runArgs.startTime), Some(runArgs.endTime)).start

\* C29: with several trips, the rows of a trip are made from the trip's own
\* data: a stop row carries the id of a stop of the trip whose own arrival
\* time is let through, and the trip's first sequence number (of a run that
\* leaves no row out upstream) is the start of its own contiguous interval.
C29_RowsFromOwnTrip ==
    RunReturned =>
        \A t \in DOMAIN gtfsTrips :
            /\ \A i \in RunRowsOf(t) :
                  runOut.rows[i].stop # None =>
                      \E st \in RunOwnStopTimes(t) :
                          st.stopID = runOut.rows[i].stop[1]
            /\ (RunRowsOf(t) # {} /\ ~runArgs.excludeUpstream) =>
                  \E i \in RunRowsOf(t) :
                      /\ runOut.rows[i].sequence = RunOwnStart(t)
                      /\ \A j \in RunRowsOf(t) :
                            runOut.rows[j].sequence >= runOut.rows[i].sequence

(***************************************************************************)
(* readAVLCSV: the rows that are accepted                                  *)
(***************************************************************************)
\* two rows carry the same (route_id, trip_headsign) pair
AvlSamePair(r1, r2) ==
    r1.route_id = r2.route_id /\ r1.trip_headsign = r2.trip_headsign

\* the rows read so far that passed the -r/-h filter
AvlPassedSoFar ==
    { avlFile.rows[i] : i \in { j \in 1..avl.line :
                                  PassesFilter(avlFile.call, avlFile.rows[j]) } }

\* the row about to be read passes the filter, has the pair of every row that
\* passed before it, is of the current trip or of a trip not seen before, is
\* of a trip of the GTFS set and is not earlier than the last stored row of
\* its trip
AvlRowQualifies(fileLine) ==
    /\ PassesFilter(avlFile.call, fileLine)
    /\ \A r \in AvlPassedSoFar : AvlSamePair(r, fileLine)
    /\ \/ avl.prevTripID = Some(fileLine.trip_id)
       \/ fileLine.trip_id \notin avl.previousTripIDs
    /\ fileLine.trip_id \in avlGtfsTrips
    /\ ~AvlRowIsLate(avl, fileLine)

\* a qualifying row gets a stop time appended, and a row is taken for
\* ambiguous only when a row that passed before it has another pair
AvlRowAccepted ==
    (avlPc = "read" /\ avl.line < Len(avlFile.rows) /\ avl' # avl /\ avl'.ret # None) =>
        LET fileLine == avlFile.rows[avl.line + 1]
        IN  /\ AvlRowQualifies(fileLine) =>
                  /\ avlPc' = "read"
                  /\ avl'.stored = Append(avl.stored, avl.line + 1)
                  /\ Len(AvlEntries(avl', fileLine.trip_id))
                       = Len(AvlEntries(avl, fileLine.trip_id)) + 1
            /\ (PassesFilter(avlFile.call, fileLine) /\ Ambiguous(avl, fileLine)) =>
                  \E r \in AvlPassedSoFar : ~AvlSamePair(r, fileLine)

\* C30: readAVLCSV appends to its trip's list every row that passes the
\* -r/-h filter, has the (route_id, trip_headsign) pair of the rows accepted
\* before it, belongs to the current trip or to an unseen trip of the GTFS
\* set, and is not earlier than the last accepted row of its trip; a row is
\* skipped for route/headsign ambiguity only when its pair differs from the
\* accepted one.
C30_QualifyingRowsAccepted == [][AvlRowAccepted]_vars

\* the acceptance part for a file with the lng column, for every pair and
\* for a pair whose route_id equals its trip_headsign
AvlAcceptedWithLng ==
    [][(avlFile.call.columns = "lon+lng" /\ avlPc = "read"
            /\ avl.line < Len(avlFile.rows) /\ avl' # avl
            /\ AvlRowQualifies(avlFile.rows[avl.line + 1]))
          => avl'.stored = Append(avl.stored, avl.line + 1)]_vars

AvlAcceptedOnePairValue ==
    [][(avlFile.call.columns = "lon+lng" /\ avlPc = "read"
            /\ avl.line < Len(avlFile.rows) /\ avl' # avl
            /\ AvlRowQualifies(avlFile.rows[avl.line + 1])
            /\ avlFile.rows[avl.line + 1].route_id
                 = avlFile.rows[avl.line + 1].trip_headsign)
          => avl'.stored = Append(avl.stored, avl.line + 1)]_vars

====
